---- MODULE Spec2Model ----
(***************************************************************************)
(* Model of the benchmark's two controllers and what they rest on:         *)
(*   - InferenceEngine.run (src/pipeline/inference.py): the bounded        *)
(*     generate -> save -> run -> analyze repair loop;                     *)
(*   - OpenSeesSingleTurnAgent.process_single_turn (src/llm.py): the       *)
(*     six-step gated workflow;                                            *)
(*   - setup_environment and get_python_executable (src/llm.py): the       *)
(*     provisioning and the choice of the runtime;                         *)
(*   - call_gemini (src/llm.py, src/pipeline/prompt.py): the oracle        *)
(*     transport.                                                          *)
(* Texts are finite sequences of tokens; Python's None is the value None.  *)
(***************************************************************************)
EXTENDS Integers, Sequences, FiniteSets, TLC

(***************************************************************************)
(* Bounds of the model.                                                    *)
(***************************************************************************)
\* largest iteration budget (self.max_iterations) explored
MaxBudget == 3

\* the most calls of get_python_executable in one session of an agent
MaxCalls == 2

\* the most call_gemini calls in one session
MaxRequests == 2

\* the most tasks of one batch
MaxCount == 2

\* the process_single_turn calls made on one agent
MaxTurns == 2

\* the runs per combination a user may ask the sampler for
MaxRunCount == 2

\* the sample() calls that may raise StopIteration
MaxStops == 2

\* the runs of the engine followed on one output directory
MaxEngineRuns == 2

\* the most numbers found in one output text
MaxValues == 2

\* the longest text the oracle answers the prompt generator with
MaxResponseLen == 12

(***************************************************************************)
(* Texts.                                                                  *)
(***************************************************************************)
\* Python's None
None == <<"<None>">>

\* whitespace tokens: a blank and a newline
WS == " "
NL == "\n"
IsSpace(t) == t \in {WS, NL}

\* the markdown fences the oracle may put around code
FENCEPY == "[fence python]"
FENCE == "[fence]"

\* the word for success that the classification looks for in the answer
OKWORD == "chenggong"
\* the word for failure that opens a negative answer
FAILWORD == "shibai:"

\* Python truthiness of an Optional[str]
Truthy(x) == x # None /\ x # <<>>

\* x or y
Or(x, y) == IF Truthy(x) THEN x ELSE y

\* how an f-string renders a value: None becomes the text "None"
Str(x) == IF x = None THEN <<"None">> ELSE x

RECURSIVE LStrip(_)
LStrip(s) == IF s # <<>> /\ IsSpace(Head(s)) THEN LStrip(Tail(s)) ELSE s

RECURSIVE RStrip(_)
RStrip(s) ==
    IF s # <<>> /\ IsSpace(s[Len(s)]) THEN RStrip(SubSeq(s, 1, Len(s) - 1)) ELSE s

\* str.strip()
Strip(s) == RStrip(LStrip(s))

\* x in s, for texts: x occurs in s as a contiguous run of tokens
IsInfix(x, s) ==
    \E i \in 1..(Len(s) + 1) :
        /\ i + Len(x) - 1 <= Len(s)
        /\ SubSeq(s, i, i + Len(x) - 1) = x

\* OKWORD in s
HasOkWord(s) == \E i \in 1..Len(s) : s[i] = OKWORD

(***************************************************************************)
(* The repair loop: InferenceEngine (src/pipeline/inference.py).           *)
(***************************************************************************)
VARIABLES
    pc,              \* position of run: generate, save, run, analyze, return, done
    max_iterations,  \* self.max_iterations
    iteration,       \* the for loop's variable
    previous_code,   \* run's local
    previous_error,  \* run's local
    iterations_info, \* run's local: the list of iteration records
    system_prompt,   \* _generate_code's local: the prompt sent to the oracle
    code,            \* run's local: the cleaned artifact text
    filepath,        \* run's local
    success,         \* run's locals: what _run_code returned
    stdout,
    stderr,
    analysis,        \* _analyze_result's local: the oracle's answer
    is_success,      \* run's locals: what _analyze_result returned
    error_info,
    result,          \* what run returns
    runner_log,      \* history: the exit status of every artifact execution
    last_artifact,   \* history: the artifact generated in the latest started
                     \* iteration that has ended, None if it generated none
    python_exe,      \* self.python_exe
    exe_log,         \* history: what every _get_python_executable call returned
    resolutions,     \* history: the env_manager.get_python_executable calls
    exceptions,      \* history: per ended iteration, the text of the exception
                     \* its body raised, None if it raised none
    children,        \* the child processes of the runner that are alive
    saved_paths,     \* history: the paths _save_code has written, in order
    client_calls     \* history: the purpose of every self.client.call made

loopVars == <<pc, max_iterations, iteration, previous_code, previous_error,
              iterations_info, system_prompt, code, filepath, success, stdout,
              stderr, analysis, is_success, error_info, result, runner_log,
              last_artifact, python_exe, exe_log, resolutions, exceptions,
              children, saved_paths, client_calls>>

VARIABLES
    wpc,          \* position of process_single_turn: think, code, extract,
                  \* write, exec, summary, returned, raised
    turn_result,  \* the result dictionary; tcl_content = None: key absent
    invoked,      \* history: the step functions called so far
    returned,     \* history: what each called step function returned
    exec_log,     \* history: the exit status of every execution of _step_exec
    exec_children \* the child processes of _step_exec that are alive

flowVars == <<wpc, turn_result, invoked, returned, exec_log, exec_children>>

VARIABLES
    epc,         \* position of setup_environment: find, venv_check, create,
                 \* pip, base, install, usage, ready (returned), raised
    eidx,        \* the index of the for loop the position is in
    world,       \* the file system and the runtimes whose probe succeeds
    setup_log,   \* history: the provisioning steps run, with their outcome
    python_log   \* history: what every get_python_executable call returned

envVars == <<epc, eidx, world, setup_log, python_log>>

VARIABLES
    call_log     \* history: per call_gemini call, the transport attempts it
                 \* made, the delays it slept between them, and its result

oracleVars == <<call_log>>

VARIABLES
    bpc,            \* position of run_batch_benchmark: sample, tcl, prompt,
                    \* analyze, save, batch_save, done
    count,          \* the argument of run_batch_benchmark
    batch_i,        \* the for loop's variable i
    combination,    \* run_single_benchmark's locals intention, structure_type
    analysis_result,\* run_single_benchmark's local
    batch_results,  \* run_batch_benchmark's local
    results,        \* self.results
    failures        \* history: per task run, the steps that failed in it

batchVars == <<bpc, count, batch_i, combination, analysis_result, batch_results,
               results, failures>>

\* the state of the components beside the controllers
VARIABLES
    cli_pc,      \* position of main() of src/llm.py: start, turn, exited
    cli_raised,  \* what ended main() before or instead of a result: none,
                 \* usage, ValueError, OSError, KeyError
    exit_code    \* the status main() passed to sys.exit, -1 before it

cliVars == <<cli_pc, cli_raised, exit_code>>

VARIABLES
    turns,       \* the process_single_turn calls made on the one agent
    persisted    \* history: per returned call, the temp_file_path of its
                 \* result ("" when it wrote no file)

agentVars == <<turns, persisted>>

VARIABLES
    structures,    \* self.structures, as loaded from the data directory
    intentions,    \* self.intentions
    output_dir,    \* the listing of self.output_dir
    run_count,     \* self._run_count, 0 for None
    plan,          \* self._plan
    plan_index,    \* self._plan_index
    planned,       \* generate_plan has returned a plan
    sampled,       \* history: what the sample() calls have returned since
                   \* the plan was generated
    stops,         \* history: the sample() calls that raised StopIteration
                   \* since the plan was generated
    sampler_raised,\* what the latest call raised: none, StopIteration,
                   \* ValueError
    engine_runs    \* history: the runs of the engine on this output
                   \* directory, each with what its _save_code calls did

samplerVars == <<structures, intentions, output_dir, run_count, plan,
                 plan_index, planned, sampled, stops, sampler_raised,
                 engine_runs>>

VARIABLES
    vpc,          \* position of verify_with_local_opensees: find, write,
                  \* run, returned
    opensees_cmd_candidates,  \* self.opensees_cmd_candidates
    vidx,         \* the candidate _find_opensees_cmd is at
    probes,       \* history: how the probe of each candidate ended
    verification  \* the result dictionary of verify_with_local_opensees

verifyVars == <<vpc, opensees_cmd_candidates, vidx, probes, verification>>

VARIABLES
    ppc,          \* position of generate_prompt: call, returned
    p_intention,  \* the argument intention
    p_response,   \* the local response: what call_gemini returned
    p_prompt      \* what generate_prompt returned

promptVars == <<ppc, p_intention, p_response, p_prompt>>

VARIABLES
    fn,      \* the function called last on its own: none, probe, compare
    fn_in,   \* the arguments of that call
    fn_out   \* what the call returned

callVars == <<fn, fn_in, fn_out>>

auxVars == <<batchVars, cliVars, agentVars, samplerVars, verifyVars, promptVars,
             callVars>>

\* the variables beside those of one component
besideBatch == <<cliVars, agentVars, samplerVars, verifyVars, promptVars, callVars>>
besideCli == <<batchVars, agentVars, samplerVars, verifyVars, promptVars, callVars>>
besideAgent == <<batchVars, cliVars, samplerVars, verifyVars, promptVars, callVars>>
besideSampler == <<batchVars, cliVars, agentVars, verifyVars, promptVars, callVars>>
besideVerify == <<batchVars, cliVars, agentVars, samplerVars, promptVars, callVars>>
besidePrompt == <<batchVars, cliVars, agentVars, samplerVars, verifyVars, callVars>>
besideCall == <<batchVars, cliVars, agentVars, samplerVars, verifyVars, promptVars>>

\* the user's requirement text handed to run
TaskPrompt == <<"task">>

\* what self.client.call may return to _generate_code
OracleCodeAnswers ==
    { None,
      <<"codeA">>,
      <<FENCEPY, NL, "codeB", NL, FENCE>>,
      <<FENCE, NL, FENCE>> }

\* what self.client.call may return to _analyze_result
OracleAnalysisAnswers ==
    { None,
      <<WS>>,
      <<OKWORD>>,
      <<FAILWORD, "reason">>,
      <<FAILWORD, "not", OKWORD>> }

\* what the child process may do under subprocess.run: end with a return
\* code and its two streams, outlive the timeout, or fail to be launched
ProcOutcomes ==
    { [kind |-> "exit", rc |-> 0, out |-> <<"results">>, err |-> <<>>],
      [kind |-> "exit", rc |-> 0, out |-> <<>>, err |-> <<>>],
      [kind |-> "exit", rc |-> 1, out |-> <<>>, err |-> <<"NameError">>],
      [kind |-> "exit", rc |-> 1, out |-> <<>>, err |-> <<>>],
      [kind |-> "timeout", rc |-> 1, out |-> <<>>, err |-> <<>>],
      [kind |-> "error", rc |-> 1, out |-> <<>>, err |-> <<>>] }

\* what running the file holding text c may do: an empty file is a Python
\* program that does nothing, so it prints nothing and ends with code 0
\* unless the interpreter itself hangs or cannot be launched
ProcOutcomesOf(c) ==
    IF c = <<>>
    THEN { p \in ProcOutcomes :
               \/ p.kind # "exit"
               \/ (p.rc = 0 /\ p.out = <<>> /\ p.err = <<>>) }
    ELSE ProcOutcomes

\* what self.env_manager.get_python_executable may return to the engine
ResolverAnswers == { <<"python3">>, <<"opensees_venv/bin/python">> }

\* _get_python_executable resolving anew at every call
MemoizedExecutable_Unmemoized(memo, resolved) == resolved

\* _get_python_executable: the stored identifier if there is one, else the
\* identifier just resolved
MemoizedExecutable(memo, resolved) ==
    IF memo = None THEN resolved ELSE memo

\* the outcomes of subprocess.run with no child process left to wait for:
\* the launch failed
NotLaunched == {"error", "FileNotFoundError", "Exception"}

\* subprocess.run that leaves the child whose timeout expired running
ChildrenAfterRun_NoKill(proc) ==
    LET spawned == IF proc.kind \in NotLaunched THEN 0 ELSE 1
        reaped == IF proc.kind = "exit" THEN 1 ELSE 0
    IN  spawned - reaped

\* the children subprocess.run leaves alive when it returns or raises: it
\* spawns one child unless the launch fails, waits for the child that exits,
\* and kills and waits for the child whose timeout expired
ChildrenAfterRun(proc) ==
    LET spawned == IF proc.kind \in NotLaunched THEN 0 ELSE 1
        reaped == IF proc.kind \in {"exit", "timeout", "TimeoutExpired"}
                  THEN 1 ELSE 0
    IN  spawned - reaped

\* the exit status of an execution, in the words of the data model
ExitStatus(proc) ==
    CASE proc.kind = "timeout" -> "Timeout"
      [] proc.kind = "error" -> "LaunchFailure"
      [] proc.kind = "exit" /\ proc.rc = 0 -> "Ok"
      [] OTHER -> "NonZero"

\* the prompt of _generate_code without the error of the previous run
GeneratePrompt_NoError(prompt, it, prev_code, prev_error) ==
    IF it = 1 \/ ~Truthy(prev_code)
    THEN <<"GENERATE:">> \o prompt \o <<"RULES">>
    ELSE <<"REPAIR:">> \o prompt
         \o <<"PREVIOUS CODE:", FENCEPY, NL>> \o prev_code \o <<NL, FENCE>>
         \o <<"RULES">>

\* the prompt of _generate_code
GeneratePrompt(prompt, it, prev_code, prev_error) ==
    IF it = 1 \/ ~Truthy(prev_code)
    THEN <<"GENERATE:">> \o prompt \o <<"RULES">>
    ELSE <<"REPAIR:">> \o prompt
         \o <<"PREVIOUS CODE:", FENCEPY, NL>> \o prev_code \o <<NL, FENCE>>
         \o <<"RUN ERROR:">> \o Str(prev_error) \o <<"RULES">>

\* the cleaning of the oracle's answer in _generate_code
CleanCode(answer) ==
    LET c0 == Strip(answer)
        c1 == IF c0 # <<>> /\ Head(c0) = FENCEPY THEN Tail(c0) ELSE c0
        c2 == IF c1 # <<>> /\ Head(c1) = FENCE THEN Tail(c1) ELSE c1
        c3 == IF c2 # <<>> /\ c2[Len(c2)] = FENCE
              THEN SubSeq(c2, 1, Len(c2) - 1) ELSE c2
    IN  Strip(c3)

\* the path of _save_code without the iteration in the file name
SaveCodePath_PerRun(it) == <<"frame-statics-1", 0>>

\* the path _save_code writes to
SaveCodePath(it) == <<"frame-statics-1", it>>

\* _run_code giving no reason for a failed launch or an expired timeout
RunCode_NoReason(proc) ==
    [success |-> proc.kind = "exit" /\ proc.rc = 0,
     stdout |-> IF proc.kind = "exit" /\ proc.out # <<>> THEN proc.out ELSE None,
     stderr |-> IF proc.kind = "exit" /\ proc.err # <<>> THEN proc.err ELSE None]

\* _run_code: (success, stdout, stderr) for what the child process did
RunCode(proc) ==
    CASE proc.kind = "exit" ->
            [success |-> proc.rc = 0,
             stdout |-> IF proc.out # <<>> THEN proc.out ELSE None,
             stderr |-> IF proc.err # <<>> THEN proc.err ELSE None]
      [] proc.kind = "timeout" ->
            [success |-> FALSE, stdout |-> None, stderr |-> <<"timeout(300s)">>]
      [] OTHER ->
            [success |-> FALSE, stdout |-> None, stderr |-> <<"run exception">>]

\* _analyze_result with the test of the answer inverted
AnalyzeResult_Inverted(succ, out, err, answer) ==
    IF ~Truthy(answer)
    THEN [is_success |-> succ, error_info |-> err]
    ELSE LET a == Strip(answer)
         IN  IF ~(HasOkWord(a) \/ succ)
             THEN [is_success |-> TRUE, error_info |-> None]
             ELSE [is_success |-> FALSE, error_info |-> Or(a, err)]

\* _analyze_result: (is_success, error_info) for the answer of the oracle
AnalyzeResult(succ, out, err, answer) ==
    IF ~Truthy(answer)
    THEN [is_success |-> succ, error_info |-> err]
    ELSE LET a == Strip(answer)
         IN  IF HasOkWord(a) \/ succ
             THEN [is_success |-> TRUE, error_info |-> None]
             ELSE [is_success |-> FALSE, error_info |-> Or(a, err)]

\* HasNextIteration of a loop without a budget
HasNextIteration_Always(it, max) == TRUE

\* the loop goes on to another iteration after a failed one
HasNextIteration(it, max) == it < max

\* LeavesLoop without the break on success
LeavesLoop_NoBreak(is_succ, it, max) == ~HasNextIteration(it, max)

\* the loop is left after a classified iteration
LeavesLoop(is_succ, it, max) == is_succ \/ ~HasNextIteration(it, max)

LoopInit ==
    /\ pc = "generate"
    /\ max_iterations \in 1..MaxBudget
    /\ iteration = 1
    /\ previous_code = None
    /\ previous_error = None
    /\ iterations_info = <<>>
    /\ system_prompt = None
    /\ code = None
    /\ filepath = None
    /\ success = FALSE
    /\ stdout = None
    /\ stderr = None
    /\ analysis = None
    /\ is_success = FALSE
    /\ error_info = None
    /\ result = None
    /\ runner_log = <<>>
    /\ last_artifact = None
    /\ python_exe = None
    /\ exe_log = <<>>
    /\ resolutions = 0
    /\ exceptions = <<>>
    /\ children = 0
    /\ saved_paths = <<>>
    /\ client_calls = <<>>

\* the except branch recording the iteration as a success
Raise_Success(e, artifact) ==
    /\ iterations_info' = Append(iterations_info,
           [iteration |-> iteration, filepath |-> None, success |-> TRUE,
            error |-> e])
    /\ previous_error' = e
    /\ last_artifact' = artifact
    /\ exceptions' = Append(exceptions, e)
    /\ IF HasNextIteration(iteration, max_iterations)
       THEN iteration' = iteration + 1 /\ pc' = "generate"
       ELSE iteration' = iteration /\ pc' = "return"
    /\ UNCHANGED <<max_iterations, previous_code, result>>

\* the except branch leaving the loop at the first exception
Raise_Break(e, artifact) ==
    /\ iterations_info' = Append(iterations_info,
           [iteration |-> iteration, filepath |-> None, success |-> FALSE,
            error |-> e])
    /\ previous_error' = e
    /\ last_artifact' = artifact
    /\ exceptions' = Append(exceptions, e)
    /\ iteration' = iteration /\ pc' = "return"
    /\ UNCHANGED <<max_iterations, previous_code, result>>

\* the except branch of run's loop body, for an exception with text e
Raise(e, artifact) ==
    /\ iterations_info' = Append(iterations_info,
           [iteration |-> iteration, filepath |-> None, success |-> FALSE,
            error |-> e])
    /\ previous_error' = e
    /\ last_artifact' = artifact
    /\ exceptions' = Append(exceptions, e)
    /\ IF HasNextIteration(iteration, max_iterations)
       THEN iteration' = iteration + 1 /\ pc' = "generate"
       ELSE iteration' = iteration /\ pc' = "return"
    /\ UNCHANGED <<max_iterations, previous_code, result>>

\* _generate_code: build the prompt, call the oracle, clean the answer
Generate ==
    /\ UNCHANGED <<flowVars, envVars, oracleVars, auxVars>>
    /\ UNCHANGED saved_paths
    /\ pc = "generate"
    /\ client_calls' = Append(client_calls, "synthesis")
    /\ system_prompt' =
           GeneratePrompt(TaskPrompt, iteration, previous_code, previous_error)
    /\ \E answer \in OracleCodeAnswers :
           IF ~Truthy(answer)
           THEN /\ Raise(<<"generate failed">>, None)
                /\ UNCHANGED code
           ELSE /\ code' = CleanCode(answer)
                /\ pc' = "save"
                /\ UNCHANGED <<max_iterations, iteration, previous_code,
                               previous_error, iterations_info, result,
                               last_artifact, exceptions>>
    /\ UNCHANGED <<filepath, success, stdout, stderr, analysis, is_success,
                   error_info, runner_log, python_exe, exe_log, resolutions,
                   children>>

\* _save_code: write the artifact, or fail to
SaveCode ==
    /\ UNCHANGED <<flowVars, envVars, oracleVars, auxVars>>
    /\ pc = "save"
    /\ UNCHANGED client_calls
    /\ \E written \in BOOLEAN :
           IF written
           THEN /\ filepath' = SaveCodePath(iteration)
                /\ saved_paths' = Append(saved_paths, SaveCodePath(iteration))
                /\ pc' = "run"
                /\ UNCHANGED <<max_iterations, iteration, previous_code,
                               previous_error, iterations_info, result,
                               last_artifact, exceptions>>
           ELSE /\ Raise(<<"write failed">>, code)
                /\ UNCHANGED <<filepath, saved_paths>>
    /\ UNCHANGED <<system_prompt, code, success, stdout, stderr, analysis,
                   is_success, error_info, runner_log, python_exe, exe_log,
                   resolutions, children>>

\* _run_code on the saved artifact: resolve the interpreter, which is outside
\* the try of _run_code and may raise into run, then run the child process
Run ==
    /\ UNCHANGED <<flowVars, envVars, oracleVars, auxVars>>
    /\ UNCHANGED <<saved_paths, client_calls>>
    /\ pc = "run"
    /\ \/ /\ python_exe = None
          /\ resolutions' = resolutions + 1
          /\ Raise(<<"resolver failed">>, code)
          /\ UNCHANGED <<python_exe, exe_log, success, stdout, stderr,
                         runner_log, children>>
       \/ /\ \E resolved \in ResolverAnswers :
                 LET exe == MemoizedExecutable(python_exe, resolved)
                 IN  /\ python_exe' = exe
                     /\ exe_log' = Append(exe_log, exe)
          /\ resolutions' = IF python_exe = None
                            THEN resolutions + 1 ELSE resolutions
          /\ \E proc \in ProcOutcomesOf(code) :
                 LET r == RunCode(proc)
                 IN  /\ success' = r.success
                     /\ stdout' = r.stdout
                     /\ stderr' = r.stderr
                     /\ runner_log' = Append(runner_log, ExitStatus(proc))
                     /\ children' = children + ChildrenAfterRun(proc)
          /\ pc' = "analyze"
          /\ UNCHANGED <<max_iterations, iteration, previous_code,
                         previous_error, iterations_info, result,
                         last_artifact, exceptions>>
    /\ UNCHANGED <<system_prompt, code, filepath, analysis, is_success,
                   error_info>>

\* _analyze_result, the record of the iteration and the loop's branch on it;
\* an exception of the oracle call goes to the except branch of run
Analyze ==
    /\ UNCHANGED <<flowVars, envVars, oracleVars, auxVars>>
    /\ UNCHANGED saved_paths
    /\ pc = "analyze"
    /\ client_calls' = Append(client_calls, "classification")
    /\ \/ /\ Raise(<<"oracle call failed">>, code)
          /\ UNCHANGED <<analysis, is_success, error_info>>
       \/ /\ \E answer \in OracleAnalysisAnswers :
                 LET v == AnalyzeResult(success, stdout, stderr, answer)
                 IN  /\ analysis' = answer
                     /\ is_success' = v.is_success
                     /\ error_info' = v.error_info
                     /\ iterations_info' = Append(iterations_info,
                            [iteration |-> iteration, filepath |-> filepath,
                             success |-> v.is_success, stdout |-> stdout,
                             stderr |-> stderr, error_info |-> v.error_info])
                     /\ IF LeavesLoop(v.is_success, iteration, max_iterations)
                        THEN /\ pc' = "return"
                             /\ UNCHANGED <<iteration, previous_code,
                                            previous_error>>
                        ELSE /\ pc' = "generate"
                             /\ iteration' = iteration + 1
                             /\ previous_code' = code
                             /\ previous_error' = Or(v.error_info, stderr)
          /\ last_artifact' = code
          /\ exceptions' = Append(exceptions, None)
          /\ UNCHANGED <<max_iterations, result>>
    /\ UNCHANGED <<system_prompt, code, filepath, success, stdout, stderr,
                   runner_log, python_exe, exe_log, resolutions, children>>

\* the final_success entry of run's result
FinalSuccess(infos) ==
    IF infos # <<>> THEN infos[Len(infos)].success ELSE FALSE

\* run builds its result and returns
Return ==
    /\ UNCHANGED <<flowVars, envVars, oracleVars, auxVars>>
    /\ UNCHANGED <<saved_paths, client_calls>>
    /\ pc = "return"
    /\ result' = [iterations |-> iterations_info,
                  final_success |-> FinalSuccess(iterations_info)]
    /\ pc' = "done"
    /\ UNCHANGED <<max_iterations, iteration, previous_code, previous_error,
                   iterations_info, system_prompt, code, filepath, success,
                   stdout, stderr, analysis, is_success, error_info,
                   runner_log, last_artifact, python_exe, exe_log,
                   resolutions, exceptions, children>>



(***************************************************************************)
(* The gated workflow: OpenSeesSingleTurnAgent (src/llm.py).               *)
(***************************************************************************)
\* the stages gated on one another, in order, under the names of failed_steps
Stages == <<"think", "code", "extract_code", "write", "exec">>

\* what read_tcl_file may return
ReadOutcomes ==
    { [ok |-> TRUE, text |-> <<"tcl">>],
      [ok |-> TRUE, text |-> <<>>],
      [ok |-> FALSE, text |-> <<"file not found">>],
      [ok |-> FALSE, text |-> <<"permission denied">>] }

\* what call_gemini may return to _step_think
GeminiThinkAnswers == { None, <<>>, <<"plan">> }

\* what call_gemini may return to _step_code
GeminiCodeAnswers ==
    { None,
      <<"body">>,
      <<"text", NL, FENCEPY, NL, "body", NL, FENCE, NL, "more">>,
      <<FENCE, NL, "a", NL, FENCE, NL, FENCE, NL, "b", "c", NL, FENCE>>,
      <<FENCEPY, NL, NL, FENCE>>,
      <<FENCEPY, WS, "body", WS, FENCE>>,
      <<WS, FENCE, WS, "x", NL, "body", NL, WS, FENCE, WS, NL>> }

\* what open/write may do in _step_write
WriteOutcomes == { "ok", "PermissionError", "OSError", "Exception" }

\* the values int(time.time()) may take
Timestamps == { 1, 2 }

\* what subprocess.run may do in _step_exec
ExecOutcomes ==
    { [kind |-> "exit", rc |-> 0, out |-> <<"results">>, err |-> <<>>],
      [kind |-> "exit", rc |-> 1, out |-> <<>>, err |-> <<"NameError">>],
      [kind |-> "exit", rc |-> 1, out |-> <<>>, err |-> <<WS>>],
      [kind |-> "TimeoutExpired", rc |-> 1, out |-> <<>>, err |-> <<>>],
      [kind |-> "FileNotFoundError", rc |-> 1, out |-> <<>>, err |-> <<>>],
      [kind |-> "Exception", rc |-> 1, out |-> <<>>, err |-> <<>>] }

\* the exit status of an execution of _step_exec, in the words of the data
\* model
ExecStatus(proc) ==
    CASE proc.kind = "TimeoutExpired" -> "Timeout"
      [] proc.kind \in {"FileNotFoundError", "Exception"} -> "LaunchFailure"
      [] proc.kind = "exit" /\ proc.rc = 0 -> "Ok"
      [] OTHER -> "NonZero"

\* the managed runtime and the candidates of get_python_executable, in order
VenvPython == "./opensees_venv/bin/python"

PythonCandidates ==
    << "python", "python3", "/usr/bin/python3", "/opt/homebrew/bin/python3",
       "/usr/local/bin/python3" >>

CandidateSet == { PythonCandidates[i] : i \in 1..Len(PythonCandidates) }

\* the environments get_python_executable may find: whether venv_dir and
\* its python exist, and the runtimes whose compatibility probe succeeds
Environments ==
    [ venv_dir : BOOLEAN, venv_python : BOOLEAN,
      compatible : SUBSET (CandidateSet \cup {VenvPython}) ]

\* get_python_executable trying the ambient runtimes before the managed one
GetPythonExecutable_AmbientFirst(env) ==
    IF \E i \in 1..2 : PythonCandidates[i] \in env.compatible
    THEN PythonCandidates[
             CHOOSE i \in 1..2 :
                 /\ PythonCandidates[i] \in env.compatible
                 /\ \A j \in 1..(i - 1) :
                        PythonCandidates[j] \notin env.compatible ]
    ELSE IF env.venv_dir /\ env.venv_python /\ VenvPython \in env.compatible
         THEN VenvPython
         ELSE IF \E i \in 3..Len(PythonCandidates) :
                     PythonCandidates[i] \in env.compatible
              THEN PythonCandidates[
                       CHOOSE i \in 3..Len(PythonCandidates) :
                           /\ PythonCandidates[i] \in env.compatible
                           /\ \A j \in 3..(i - 1) :
                                  PythonCandidates[j] \notin env.compatible ]
              ELSE "python3"

\* get_python_executable in environment env
GetPythonExecutable(env) ==
    IF env.venv_dir /\ env.venv_python /\ VenvPython \in env.compatible
    THEN VenvPython
    ELSE IF \E i \in 1..Len(PythonCandidates) :
                PythonCandidates[i] \in env.compatible
         THEN PythonCandidates[
                  CHOOSE i \in 1..Len(PythonCandidates) :
                      /\ PythonCandidates[i] \in env.compatible
                      /\ \A j \in 1..(i - 1) :
                             PythonCandidates[j] \notin env.compatible ]
         ELSE "python3"

\* a token at which the three backticks of a closing fence match
IsFenceStart(t) == t \in {FENCE, FENCEPY}

\* the matches of  open \s* \n ( [\s\S]*? ) \n ```  that start at token i:
\* <<j, k>>, the newline after the opening fence and the one before the
\* closing fence
MatchesAt(t, i, open) ==
    IF i > Len(t) \/ t[i] # open
    THEN {}
    ELSE { m \in (1..Len(t)) \X (1..Len(t)) :
               /\ i < m[1] /\ m[1] < m[2] /\ m[2] < Len(t)
               /\ \A x \in (i + 1)..(m[1] - 1) : IsSpace(t[x])
               /\ t[m[1]] = NL
               /\ t[m[2]] = NL
               /\ IsFenceStart(t[m[2] + 1]) }

\* the match the regex engine takes: \s* greedy, the group lazy
BestMatch(M) ==
    CHOOSE m \in M :
        \A n \in M : m[1] > n[1] \/ (m[1] = n[1] /\ m[2] <= n[2])

\* re.findall from token i on: the groups of the non-overlapping matches
RECURSIVE FindAll(_, _, _)
FindAll(t, i, open) ==
    IF i > Len(t)
    THEN <<>>
    ELSE IF MatchesAt(t, i, open) = {}
         THEN FindAll(t, i + 1, open)
         ELSE LET m == BestMatch(MatchesAt(t, i, open))
              IN  <<SubSeq(t, m[1] + 1, m[2] - 1)>> \o FindAll(t, m[2] + 2, open)

\* max(matches, key=len): the first of the longest matches
Longest(ms) ==
    ms[CHOOSE i \in 1..Len(ms) :
           /\ \A j \in 1..Len(ms) : Len(ms[j]) <= Len(ms[i])
           /\ \A j \in 1..(i - 1) : Len(ms[j]) < Len(ms[i])]

\* the text after its first line
AfterFirstLine(t) ==
    IF \E i \in 1..Len(t) : t[i] = NL
    THEN SubSeq(t, 1 + (CHOOSE i \in 1..Len(t) :
                            t[i] = NL /\ \A j \in 1..(i - 1) : t[j] # NL),
                Len(t))
    ELSE <<>>

\* the index of the last newline of t, 0 if it has none
LastNewline(t) ==
    IF \E i \in 1..Len(t) : t[i] = NL
    THEN CHOOSE i \in 1..Len(t) :
             t[i] = NL /\ \A j \in (i + 1)..Len(t) : t[j] # NL
    ELSE 0

\* the fallback of extract_python_code for a text that opens with a fence:
\* drop the first line, and the last line when it is a closing fence
DropFenceLines(t) ==
    LET rest == AfterFirstLine(t)
        last == SubSeq(rest, LastNewline(rest) + 1, Len(rest))
        hasLines == \E i \in 1..Len(t) : t[i] = NL
    IN  IF hasLines /\ Strip(last) = <<FENCE>>
        THEN Strip(SubSeq(rest, 1, LastNewline(rest) - 1))
        ELSE Strip(rest)

\* extract_python_code
ExtractPythonCode(text) ==
    LET m1 == FindAll(text, 1, FENCEPY)
        m2 == FindAll(text, 1, FENCE)
        t == Strip(text)
    IN  IF m1 # <<>> THEN Strip(Longest(m1))
        ELSE IF m2 # <<>> THEN Strip(Longest(m2))
        ELSE IF t # <<>> /\ IsFenceStart(Head(t)) THEN DropFenceLines(t)
        ELSE t

\* the dictionary without keys
EmptyDict == <<>>

\* bool(d) for a dictionary
HasKeys(d) == DOMAIN d # {}

\* l.append(x) for the lists of the result
Appended(r, key, x) == [r EXCEPT ![key] = Append(@, x)]

\* the test of failed_steps finding no step in it
Failed_Never(r, step) == FALSE

\* step in failed_steps
Failed(r, step) == \E i \in 1..Len(r.failed_steps) : r.failed_steps[i] = step

\* the overall success of step 6 with its test negated
WorkflowSuccess_Negated(failed) ==
    ~ /\ \A i \in 1..Len(failed) :
             failed[i] \notin {"think", "code", "extract_code", "write"}
      /\ \A i \in 1..Len(failed) : failed[i] # "exec"

\* the overall success without the test of the exec step
WorkflowSuccess_CriticalOnly(failed) ==
    \A i \in 1..Len(failed) :
        failed[i] \notin {"think", "code", "extract_code", "write"}

\* the overall success as step 6 computes it from failed_steps
WorkflowSuccess(failed) ==
    /\ \A i \in 1..Len(failed) :
           failed[i] \notin {"think", "code", "extract_code", "write"}
    /\ \A i \in 1..Len(failed) : failed[i] # "exec"

FlowInit ==
    /\ wpc = "think"
    /\ turn_result =
           [success |-> FALSE, think_response |-> <<>>, code_response |-> <<>>,
            extracted_code |-> <<>>, temp_file_path |-> <<>>,
            execution_result |-> EmptyDict, errors |-> <<>>, failed_steps |-> <<>>,
            tcl_content |-> None]
    /\ invoked = {}
    /\ returned = [s \in {} |-> FALSE]
    /\ exec_log = <<>>
    /\ exec_children = 0

\* the return value v of step function step is noted
Called(step, v) ==
    /\ invoked' = invoked \cup {step}
    /\ returned' = [s \in DOMAIN returned \cup {step} |->
                        IF s = step THEN v ELSE returned[s]]

\* step 1: _step_think, and the note of its failure
StepThink ==
    /\ UNCHANGED <<loopVars, envVars, oracleVars, auxVars, exec_log, exec_children>>
    /\ wpc = "think"
    /\ \E file \in ReadOutcomes, response \in GeminiThinkAnswers :
           IF ~file.ok
           THEN /\ turn_result' =
                       Appended(Appended(turn_result, "errors",
                                         <<"step 1 failed">> \o file.text),
                                "failed_steps", "think")
                /\ Called("think", FALSE)
           ELSE IF ~Truthy(response)
           THEN /\ turn_result' =
                       Appended(Appended(turn_result, "errors",
                                         <<"step 1 failed", "no response">>),
                                "failed_steps", "think")
                /\ Called("think", FALSE)
           ELSE /\ turn_result' = [turn_result EXCEPT
                                       !.think_response = response,
                                       !.tcl_content = file.text]
                /\ Called("think", TRUE)
    /\ wpc' = "code"

\* step 2: _step_code, and the note of its failure; building the prompt
\* reads result["tcl_content"], a KeyError when step 1 did not set it
StepCode ==
    /\ UNCHANGED <<loopVars, envVars, oracleVars, auxVars, exec_log, exec_children>>
    /\ wpc = "code"
    /\ IF turn_result.tcl_content = None
       THEN /\ wpc' = "raised"
            /\ invoked' = invoked \cup {"code"}
            /\ UNCHANGED <<turn_result, returned>>
       ELSE /\ wpc' = "extract"
            /\ \E response \in GeminiCodeAnswers :
                   IF ~Truthy(response)
                   THEN /\ turn_result' =
                               Appended(Appended(turn_result, "errors",
                                            <<"step 2 failed", "no response">>),
                                        "failed_steps", "code")
                        /\ Called("code", FALSE)
                   ELSE /\ turn_result' =
                               [turn_result EXCEPT !.code_response = response]
                        /\ Called("code", TRUE)

\* the test of _step_extract_code never finding the body empty
NoCode_Never(body) == FALSE

\* not code.strip(): the extracted body is empty or blank
NoCode(body) == Strip(body) = <<>>

\* step 3: _step_extract_code when step 2 did not fail
StepExtract ==
    /\ UNCHANGED <<loopVars, envVars, oracleVars, auxVars, exec_log, exec_children>>
    /\ wpc = "extract"
    /\ wpc' = "write"
    /\ IF ~Failed(turn_result, "code")
       THEN LET body == ExtractPythonCode(turn_result.code_response)
            IN  IF NoCode(body)
                THEN /\ turn_result' =
                            Appended(Appended(turn_result, "errors",
                                              <<"step 3 failed", "no code">>),
                                     "failed_steps", "extract_code")
                     /\ Called("extract_code", FALSE)
                ELSE /\ turn_result' =
                            [turn_result EXCEPT !.extracted_code = body]
                     /\ Called("extract_code", TRUE)
       ELSE /\ turn_result' = Appended(turn_result, "failed_steps", "extract_code")
            /\ UNCHANGED <<invoked, returned>>

\* step 4: _step_write when step 3 did not fail
StepWrite ==
    /\ UNCHANGED <<loopVars, envVars, oracleVars, auxVars, exec_log, exec_children>>
    /\ wpc = "write"
    /\ wpc' = "exec"
    /\ IF ~Failed(turn_result, "extract_code")
       THEN \E timestamp \in Timestamps, w \in WriteOutcomes :
                IF w = "ok"
                THEN /\ turn_result' =
                            [turn_result EXCEPT
                                 !.temp_file_path = <<"opensees_", timestamp>>]
                     /\ Called("write", TRUE)
                ELSE /\ turn_result' =
                            Appended(Appended(turn_result, "errors",
                                              <<"step 4 failed", w>>),
                                     "failed_steps", "write")
                     /\ Called("write", FALSE)
       ELSE /\ turn_result' = Appended(turn_result, "failed_steps", "write")
            /\ UNCHANGED <<invoked, returned>>

\* step 5: _step_exec when step 4 did not fail
StepExec ==
    /\ UNCHANGED <<loopVars, envVars, oracleVars, auxVars>>
    /\ wpc = "exec"
    /\ wpc' = "summary"
    /\ IF ~Failed(turn_result, "write")
       THEN \E env \in Environments, proc \in ExecOutcomes :
                LET python_executable == GetPythonExecutable(env)
                    ran ==
                        /\ exec_log' = Append(exec_log, ExecStatus(proc))
                        /\ exec_children' =
                               exec_children + ChildrenAfterRun(proc)
                IN  ran /\
                    IF proc.kind = "exit"
                    THEN LET r == [turn_result EXCEPT !.execution_result =
                                      [success |-> proc.rc = 0,
                                       stdout |-> proc.out,
                                       stderr |-> proc.err,
                                       return_code |-> proc.rc,
                                       python_used |-> python_executable]]
                         IN  IF proc.rc = 0
                             THEN /\ turn_result' = r
                                  /\ Called("exec", TRUE)
                             ELSE /\ turn_result' =
                                         Appended(Appended(r, "errors",
                                             <<"step 5 failed">>
                                             \o Or(Strip(proc.err),
                                                   <<"No stderr output">>)),
                                             "failed_steps", "exec")
                                  /\ Called("exec", FALSE)
                    ELSE /\ turn_result' =
                                Appended(Appended(turn_result, "errors",
                                             <<"step 5 failed", proc.kind>>),
                                         "failed_steps", "exec")
                         /\ Called("exec", FALSE)
       ELSE /\ turn_result' = Appended(turn_result, "failed_steps", "exec")
            /\ UNCHANGED <<invoked, returned, exec_log, exec_children>>

\* step 6: the overall success, and the return of the result
StepReturnResult ==
    /\ UNCHANGED <<loopVars, envVars, oracleVars, auxVars, exec_log, exec_children>>
    /\ wpc = "summary"
    /\ turn_result' = [turn_result EXCEPT
                           !.success = WorkflowSuccess(turn_result.failed_steps)]
    /\ wpc' = "returned"
    /\ UNCHANGED <<invoked, returned>>

(***************************************************************************)
(* The environment of the agent: setup_environment and                     *)
(* get_python_executable of OpenSeesSingleTurnAgent (src/llm.py).          *)
(***************************************************************************)
\* a probe that finds no runtime compatible
TestCompatibility_Never(env, exe) == FALSE

\* _test_openseespy_compatibility: the probe of runtime exe succeeds
TestCompatibility(env, exe) ==
    /\ exe \in env.compatible
    /\ exe = VenvPython => env.venv_dir /\ env.venv_python

\* a machine with no managed runtime and no compatible runtime
BareWorld ==
    [venv_dir |-> FALSE, venv_python |-> FALSE, compatible |-> {}]

\* the packages installed before the native binding, in order
BasePackages == <<"numpy", "matplotlib", "scipy">>

\* the ways the native binding is installed, in order
InstallMethods == <<"plain", "force-reinstall", "index">>

\* the commands tried for creating the managed runtime, in order
VenvCommands == <<"python3", "python">>

\* what subprocess.run(..., check=True) may do for each provisioning step
VenvOutcomes == {"ok", "CalledProcessError", "FileNotFoundError", "OSError"}
PipUpgradeOutcomes == {"ok", "CalledProcessError", "FileNotFoundError"}
PipInstallOutcomes == {"ok", "CalledProcessError"}
UsageFileOutcomes == {"ok", "OSError"}

\* the exceptions the except clause around one venv command catches
CaughtByVenvAttempt(kind) ==
    kind \in {"CalledProcessError", "FileNotFoundError"}

\* the exceptions the except clause around one pip install catches
CaughtByInstall(kind) == kind = "CalledProcessError"

\* _create_virtual_environment without its except Exception clause
CaughtByCreate_CalledProcessErrorOnly(kind) == kind = "CalledProcessError"

\* the exceptions the except clauses of _create_virtual_environment catch:
\* CalledProcessError, and Exception with all its subclasses
CaughtByCreate(kind) ==
    \/ kind = "CalledProcessError"
    \/ kind \in {"FileNotFoundError", "OSError", "Exception"}

\* _install_openseespy_packages returning after every successful install
InstallReturns_WithoutProbe(installed, compatible) == installed

\* _install_openseespy_packages returns from inside its loop of methods
InstallReturns(installed, compatible) == installed /\ compatible

EnvInit ==
    /\ epc = "find"
    /\ eidx = 1
    /\ world \in Environments
    /\ setup_log = <<>>
    /\ python_log = <<>>

\* an entry of the provisioning history
Logged(step, n, outcome) == [step |-> step, n |-> n, outcome |-> outcome]

\* an exception of kind kind leaves the try of _create_virtual_environment
Abort(kind) ==
    /\ epc' = IF CaughtByCreate(kind) THEN "ready" ELSE "raised"
    /\ eidx' = 1

\* setup_environment: _find_working_openseespy_environment
SetupFind ==
    /\ UNCHANGED <<loopVars, flowVars, oracleVars, auxVars>>
    /\ epc = "find"
    /\ epc' = IF \E exe \in {"python", "python3"} :
                     TestCompatibility(world, exe)
              THEN "ready" ELSE "venv_check"
    /\ UNCHANGED <<eidx, world, setup_log, python_log>>

\* setup_environment: the test of an existing managed runtime
SetupVenvCheck ==
    /\ UNCHANGED <<loopVars, flowVars, oracleVars, auxVars>>
    /\ epc = "venv_check"
    /\ epc' = IF world.venv_dir /\ TestCompatibility(world, VenvPython)
              THEN "ready" ELSE "create"
    /\ UNCHANGED <<eidx, world, setup_log, python_log>>

\* _create_virtual_environment: one command of the loop creating the runtime
CreateVenv ==
    /\ UNCHANGED <<loopVars, flowVars, oracleVars, auxVars>>
    /\ epc = "create"
    /\ \E outcome \in VenvOutcomes :
           /\ setup_log' = Append(setup_log,
                               Logged("venv", eidx, outcome))
           /\ IF outcome = "ok"
              THEN /\ world' = [world EXCEPT !.venv_dir = TRUE,
                                             !.venv_python = TRUE]
                   /\ epc' = "pip"
                   /\ eidx' = 1
              ELSE /\ UNCHANGED world
                   /\ IF ~CaughtByVenvAttempt(outcome)
                      THEN Abort(outcome)
                      ELSE IF eidx < Len(VenvCommands)
                           THEN epc' = "create" /\ eidx' = eidx + 1
                           ELSE Abort("Exception")
    /\ UNCHANGED python_log

\* _create_virtual_environment: the upgrade of pip
PipUpgrade ==
    /\ UNCHANGED <<loopVars, flowVars, oracleVars, auxVars>>
    /\ epc = "pip"
    /\ \E outcome \in PipUpgradeOutcomes :
           /\ setup_log' = Append(setup_log, Logged("pip", 1, outcome))
           /\ IF outcome = "ok"
              THEN epc' = "base" /\ eidx' = 1
              ELSE Abort(outcome)
    /\ UNCHANGED <<world, python_log>>

\* _install_openseespy_packages: one package of the loop of base packages
InstallBase ==
    /\ UNCHANGED <<loopVars, flowVars, oracleVars, auxVars>>
    /\ epc = "base"
    /\ \E outcome \in PipInstallOutcomes :
           /\ setup_log' = Append(setup_log, Logged("base", eidx, outcome))
           /\ IF outcome = "ok" \/ CaughtByInstall(outcome)
              THEN IF eidx < Len(BasePackages)
                   THEN epc' = "base" /\ eidx' = eidx + 1
                   ELSE epc' = "install" /\ eidx' = 1
              ELSE Abort(outcome)
    /\ UNCHANGED <<world, python_log>>

\* _install_openseespy_packages: one method of the loop installing the
\* native binding, with the probe that follows a successful install
InstallMethod ==
    /\ UNCHANGED <<loopVars, flowVars, oracleVars, auxVars>>
    /\ epc = "install"
    /\ \E outcome \in PipInstallOutcomes, compatible \in BOOLEAN :
           LET installed == outcome = "ok"
               probed == IF installed
                         THEN <<Logged("probe", eidx,
                                   IF compatible THEN "ok" ELSE "failed")>>
                         ELSE <<>>
               more == eidx < Len(InstallMethods)
           IN  /\ installed \/ ~compatible
               /\ setup_log' = Append(setup_log,
                                   Logged("install", eidx, outcome)) \o probed
               /\ world' = IF installed /\ compatible
                           THEN [world EXCEPT !.compatible =
                                     @ \cup {VenvPython}]
                           ELSE world
               /\ IF ~installed /\ ~CaughtByInstall(outcome)
                  THEN Abort(outcome)
                  ELSE IF InstallReturns(installed, compatible) \/ ~more
                       THEN epc' = "usage" /\ eidx' = 1
                       ELSE epc' = "install" /\ eidx' = eidx + 1
    /\ UNCHANGED python_log

\* _create_virtual_environment: _create_usage_file, the last statement
CreateUsageFile ==
    /\ UNCHANGED <<loopVars, flowVars, oracleVars, auxVars>>
    /\ epc = "usage"
    /\ \E outcome \in UsageFileOutcomes :
           /\ setup_log' = Append(setup_log, Logged("usage", 1, outcome))
           /\ IF outcome = "ok"
              THEN epc' = "ready" /\ eidx' = 1
              ELSE Abort(outcome)
    /\ UNCHANGED <<world, python_log>>

\* the runtimes whose probe may succeed at the next call: any of them may
\* have changed since the last probe; after a provisioning the machine is
\* taken as the provisioning left it
CompatibleAtCall ==
    IF setup_log = <<>>
    THEN SUBSET (CandidateSet \cup {VenvPython})
    ELSE {world.compatible}

\* one call of get_python_executable, as _step_exec makes at every execute
\* stage
CallGetPythonExecutable ==
    /\ UNCHANGED <<loopVars, flowVars, oracleVars, auxVars>>
    /\ epc = "ready"
    /\ Len(python_log) < MaxCalls
    /\ \E compatible \in CompatibleAtCall :
           LET env == [world EXCEPT !.compatible = compatible]
           IN  /\ world' = env
               /\ python_log' = Append(python_log, GetPythonExecutable(env))
    /\ UNCHANGED <<epc, eidx, setup_log>>

(***************************************************************************)
(* The oracle transport: call_gemini of OpenSeesSingleTurnAgent            *)
(* (src/llm.py) and of PromptGenerator (src/pipeline/prompt.py).           *)
(***************************************************************************)
\* what requests.post may do: raise, or return a response with a status
\* code and a body; shape names what the JSON of the body holds
Transport(kind, status, shape, text) ==
    [kind |-> kind, status |-> status, shape |-> shape, text |-> text]

TransportOutcomes ==
    { Transport("ConnectionError", 0, "none", <<>>),
      Transport("Timeout", 0, "none", <<>>),
      Transport("RequestException", 0, "none", <<>>),
      Transport("response", 400, "error", <<>>),
      Transport("response", 429, "error", <<>>),
      Transport("response", 500, "error", <<>>),
      Transport("response", 503, "error", <<>>),
      Transport("response", 200, "parts", <<"answer", NL>>),
      Transport("response", 200, "parts", <<>>),
      Transport("response", 200, "text", <<"answer", NL>>),
      Transport("response", 200, "no candidates", <<>>),
      Transport("response", 200, "no parts no text", <<>>),
      Transport("response", 200, "no content", <<>>),
      Transport("response", 200, "not json", <<>>) }

\* call_gemini of the agent: the value returned for one transport outcome
CallGemini(t) ==
    IF t.kind = "response" /\ t.status = 200 /\ t.shape \in {"parts", "text"}
    THEN t.text
    ELSE None

\* call_gemini of the prompt generator: it strips the text it returns
PromptCallGemini(t) ==
    IF t.kind = "response" /\ t.status = 200 /\ t.shape \in {"parts", "text"}
    THEN Strip(t.text)
    ELSE None

\* the transport attempts one call makes when the first one ends as t
TransportAttempts(t) == <<t>>

\* the delays one call sleeps between its attempts
BackoffDelays(t) == <<>>

OracleInit == call_log = <<>>

\* one call of the agent's call_gemini
AgentCallGemini ==
    /\ UNCHANGED <<loopVars, flowVars, envVars, auxVars>>
    /\ Len(call_log) < MaxRequests
    /\ \E t \in TransportOutcomes :
           call_log' = Append(call_log,
               [client |-> "agent", attempts |-> TransportAttempts(t),
                delays |-> BackoffDelays(t), returned |-> CallGemini(t)])

\* one call of the prompt generator's call_gemini
GeneratorCallGemini ==
    /\ UNCHANGED <<loopVars, flowVars, envVars, auxVars>>
    /\ Len(call_log) < MaxRequests
    /\ \E t \in TransportOutcomes :
           call_log' = Append(call_log,
               [client |-> "generator", attempts |-> TransportAttempts(t),
                delays |-> BackoffDelays(t),
                returned |-> PromptCallGemini(t)])

(***************************************************************************)
(* The batch of tasks: BenchmarkPipeline (src/main.py).                    *)
(***************************************************************************)
\* what self.sampler.sample_combination may return
Combinations == { <<"statics", "frame">>, <<"modal", "wall">> }

\* what self.analyzer.analyze_structure may do: return a result dictionary
\* with its success entry, or raise
AnalysisOutcomes == { "success", "failure", "raise" }

\* what save_analysis_result and save_text_result may do: return the path
\* written, return the empty string after a failed write, or raise
SaveOutcomes == { "path", "empty", "raise" }

\* the file name a save call leaves in run_single_benchmark's local
SavedName(outcome) == IF outcome = "path" THEN <<"file">> ELSE <<>>

\* _create_error_result reporting a success
CreateErrorResult_Success(comb, error_msg) ==
    [intention |-> comb[1], structure_type |-> comb[2], success |-> TRUE,
     error |-> error_msg, json_file |-> <<>>, text_file |-> <<>>]

\* _create_error_result; success and error are the entries of analysis_result
CreateErrorResult(comb, error_msg) ==
    [intention |-> comb[1], structure_type |-> comb[2], success |-> FALSE,
     error |-> error_msg, json_file |-> <<>>, text_file |-> <<>>]

\* complete_result of run_single_benchmark
CompleteResult(comb, analysed, json_file, text_file) ==
    [intention |-> comb[1], structure_type |-> comb[2],
     success |-> analysed = "success", error |-> <<>>,
     json_file |-> json_file, text_file |-> text_file]

BatchInit ==
    /\ bpc = "sample"
    /\ count \in 1..MaxCount
    /\ batch_i = 0
    /\ combination = <<>>
    /\ analysis_result = "none"
    /\ batch_results = <<>>
    /\ results = <<>>
    /\ failures = <<>>

\* run_single_benchmark returns res: the loop body of run_batch_benchmark
\* appends it and goes on to the next task or leaves the loop
TaskReturns(res, failed) ==
    /\ batch_results' = Append(batch_results, res)
    /\ failures' = Append(failures, failed)
    /\ IF batch_i < count - 1
       THEN batch_i' = batch_i + 1 /\ bpc' = "sample"
       ELSE batch_i' = batch_i /\ bpc' = "batch_save"
    /\ UNCHANGED count

\* step 1 of run_single_benchmark: the sampled combination
BatchSample ==
    /\ UNCHANGED <<loopVars, flowVars, envVars, oracleVars, besideBatch>>
    /\ bpc = "sample"
    /\ \E comb \in Combinations : combination' = comb
    /\ analysis_result' = "none"
    /\ bpc' = "tcl"
    /\ UNCHANGED <<count, batch_i, batch_results, results, failures>>

\* step 2: generate_tcl, or the error result of its exception
BatchTcl ==
    /\ UNCHANGED <<loopVars, flowVars, envVars, oracleVars, besideBatch>>
    /\ bpc = "tcl"
    /\ \E raised \in BOOLEAN :
           IF raised
           THEN TaskReturns(CreateErrorResult(combination, <<"tcl failed">>),
                            {"tcl"})
           ELSE /\ bpc' = "prompt"
                /\ UNCHANGED <<count, batch_i, batch_results, failures>>
    /\ UNCHANGED <<combination, analysis_result, results>>

\* step 3: generate_prompt, or the error result of its exception
BatchPrompt ==
    /\ UNCHANGED <<loopVars, flowVars, envVars, oracleVars, besideBatch>>
    /\ bpc = "prompt"
    /\ \E raised \in BOOLEAN :
           IF raised
           THEN TaskReturns(CreateErrorResult(combination,
                                <<"prompt failed">>), {"prompt"})
           ELSE /\ bpc' = "analyze"
                /\ UNCHANGED <<count, batch_i, batch_results, failures>>
    /\ UNCHANGED <<combination, analysis_result, results>>

\* step 4: analyze_structure, or the error result of its exception
BatchAnalyze ==
    /\ UNCHANGED <<loopVars, flowVars, envVars, oracleVars, besideBatch>>
    /\ bpc = "analyze"
    /\ \E outcome \in AnalysisOutcomes :
           IF outcome = "raise"
           THEN /\ TaskReturns(CreateErrorResult(combination,
                                   <<"analysis failed">>), {"analysis"})
                /\ UNCHANGED analysis_result
           ELSE /\ analysis_result' = outcome
                /\ bpc' = "save"
                /\ UNCHANGED <<count, batch_i, batch_results, failures>>
    /\ UNCHANGED <<combination, results>>

\* step 5 and the rest of run_single_benchmark: the two saves inside one
\* try whose handler only prints, then the complete result
BatchSave ==
    /\ UNCHANGED <<loopVars, flowVars, envVars, oracleVars, besideBatch>>
    /\ bpc = "save"
    /\ \E json \in SaveOutcomes, text \in SaveOutcomes :
           LET json_file == SavedName(json)
               text_file == IF json = "raise" THEN <<>> ELSE SavedName(text)
               res == CompleteResult(combination, analysis_result,
                                     json_file, text_file)
               failed == (IF analysis_result = "failure"
                          THEN {"analysis"} ELSE {})
                         \cup (IF json # "path" \/ text # "path"
                               THEN {"save"} ELSE {})
           IN  /\ json = "raise" => text = "raise"
               /\ results' = Append(results, res)
               /\ TaskReturns(res, failed)
    /\ UNCHANGED <<combination, analysis_result>>

\* the end of run_batch_benchmark: save_batch_results, which catches its
\* write errors, the summary, and the return of batch_results
BatchFinish ==
    /\ UNCHANGED <<loopVars, flowVars, envVars, oracleVars, besideBatch>>
    /\ bpc = "batch_save"
    /\ bpc' = "done"
    /\ UNCHANGED <<count, batch_i, combination, analysis_result, batch_results,
                   results, failures>>

(***************************************************************************)
(* The command line of the agent: main() (src/llm.py).                     *)
(***************************************************************************)
\* len(sys.argv) of an invocation
ArgCounts == { 1, 2, 3 }

\* what constructing the agent may do: return the agent, raise ValueError
\* for the missing API key, or raise from os.makedirs
ConstructOutcomes == { "ok", "ValueError", "OSError" }

\* an exit status of 0 whatever the result
ExitCode_Zero(r) == 0

\* the exit status main() chooses for a returned workflow result
ExitCode(r) ==
    IF \/ r.success
       \/ /\ HasKeys(r.execution_result)
          /\ r.execution_result.success
    THEN 0
    ELSE 1

CliInit ==
    /\ cli_pc = "start"
    /\ cli_raised = "none"
    /\ exit_code = -1

\* main() up to the call of process_single_turn: the usage exit, and the
\* construction of the agent
CliStart ==
    /\ cli_pc = "start"
    /\ \E argc \in ArgCounts, made \in ConstructOutcomes :
           IF argc < 3
           THEN /\ cli_pc' = "exited"
                /\ cli_raised' = "usage"
                /\ exit_code' = 1
           ELSE IF made # "ok"
           THEN /\ cli_pc' = "exited"
                /\ cli_raised' = made
                /\ exit_code' = 1
           ELSE /\ cli_pc' = "turn"
                /\ UNCHANGED <<cli_raised, exit_code>>
    /\ UNCHANGED <<loopVars, flowVars, envVars, oracleVars, besideCli>>

\* agent.process_single_turn(tcl_file_path, user_command) inside main()
CliTurn ==
    /\ cli_pc = "turn"
    /\ \/ StepThink
       \/ StepCode
       \/ StepExtract
       \/ StepWrite
       \/ StepExec
       \/ StepReturnResult

\* main() after process_single_turn: the exit on its result, or on the
\* exception it raised
CliExit ==
    /\ cli_pc = "turn"
    /\ wpc \in {"returned", "raised"}
    /\ cli_pc' = "exited"
    /\ IF wpc = "raised"
       THEN /\ cli_raised' = "KeyError"
            /\ exit_code' = 1
       ELSE /\ exit_code' = ExitCode(turn_result)
            /\ UNCHANGED cli_raised
    /\ UNCHANGED <<loopVars, flowVars, envVars, oracleVars, besideCli>>

(***************************************************************************)
(* One agent asked several times: sequential process_single_turn calls on  *)
(* one OpenSeesSingleTurnAgent (src/llm.py).                               *)
(***************************************************************************)
AgentInit ==
    /\ turns = 1
    /\ persisted = <<>>

\* a call of process_single_turn has returned its result, and the caller
\* makes the next call on the same agent; the result dictionary is built
\* anew, self.temp_dir and the files in it stay
NextTurn ==
    /\ wpc = "returned"
    /\ turns < MaxTurns
    /\ turns' = turns + 1
    /\ persisted' = Append(persisted, turn_result.temp_file_path)
    /\ wpc' = "think"
    /\ turn_result' =
           [success |-> FALSE, think_response |-> <<>>, code_response |-> <<>>,
            extracted_code |-> <<>>, temp_file_path |-> <<>>,
            execution_result |-> EmptyDict, errors |-> <<>>, failed_steps |-> <<>>,
            tcl_content |-> None]
    /\ invoked' = {}
    /\ returned' = [s \in {} |-> FALSE]
    /\ UNCHANGED <<exec_log, exec_children>>
    /\ UNCHANGED <<loopVars, envVars, oracleVars, besideAgent>>

(***************************************************************************)
(* The plan of runs: Sampler (src/pipeline/sampler.py).                    *)
(* Names are sequences of tokens: words, blanks, hyphens, numerals.        *)
(***************************************************************************)
HYPHEN == "-"

\* the suffix of a report file
MD == ".md"

\* the suffix of STRUCTURE_MAP's long keys, two characters long
JIEGOU == "jiegou"

\* Sampler.STRUCTURE_MAP; the words stand for the keys' characters
STRUCTURE_MAP ==
    [ k \in { <<"kuangjia">>, <<"kuangjia", JIEGOU>>, <<"jianliqiang">>,
              <<"jianliqiang", JIEGOU>>, <<"kuangjia", "jianliqiang">>,
              <<"kuangjia", "jianliqiang", JIEGOU>> } |->
        IF Len(k) >= 2 /\ k[2] = "jianliqiang"
        THEN <<"frame", HYPHEN, "wall">>
        ELSE IF k[1] = "kuangjia" THEN <<"frame">> ELSE <<"wall">> ]

\* Sampler.INTENTION_MAP
INTENTION_MAP ==
    [ k \in { <<"jingli">>, <<"motai">>, <<"dizhenpu">>, <<"shicheng">> } |->
        CASE k = <<"jingli">> -> <<"statics">>
          [] k = <<"motai">> -> <<"modal">>
          [] k = <<"dizhenpu">> -> <<"spectrum">>
          [] OTHER -> <<"timehistory">> ]

\* str.lower() on a word
LowerWord(t) ==
    CASE t = "Pushover" -> "pushover"
      [] t = "Steel" -> "steel"
      [] OTHER -> t

\* key.lower().replace(" ", "-")
Slug(key) ==
    [ i \in 1..Len(key) |-> IF key[i] = WS THEN HYPHEN ELSE LowerWord(key[i]) ]

\* _translate_to_english: <<structure_en, intention_en>>
TranslateToEnglish(structure, intention) ==
    LET s0 == Strip(structure)
        structure_key ==
            IF s0 # <<>> /\ s0[Len(s0)] = JIEGOU /\ s0 \notin DOMAIN STRUCTURE_MAP
            THEN SubSeq(s0, 1, Len(s0) - 1)
            ELSE s0
        intention_key == Strip(intention)
    IN  << IF structure_key \in DOMAIN STRUCTURE_MAP
           THEN STRUCTURE_MAP[structure_key]
           ELSE Slug(structure_key),
           IF intention_key \in DOMAIN INTENTION_MAP
           THEN INTENTION_MAP[intention_key]
           ELSE Slug(intention_key) >>

\* the numerals a name may end with
Numerals == { "1", "2", "3", "01" }

\* int(run_index_str)
IntOf(t) ==
    CASE t \in {"1", "01"} -> 1
      [] t = "2" -> 2
      [] OTHER -> 3

\* str(run_index) inside an f-string
Decimal(n) ==
    CASE n = 1 -> "1"
      [] n = 2 -> "2"
      [] OTHER -> "3"

\* the name '<structure_en>-<intention_en>-<run_index>' of a run's folder
RunName(structure_en, intention_en, run_index) ==
    structure_en \o <<HYPHEN>> \o intention_en \o <<HYPHEN, Decimal(run_index)>>

\* the index of the last hyphen of a name, 0 if it has none: rfind('-') + 1
LastHyphen(name) ==
    IF \E i \in 1..Len(name) : name[i] = HYPHEN
    THEN CHOOSE i \in 1..Len(name) :
             name[i] = HYPHEN /\ \A j \in (i + 1)..Len(name) : name[j] # HYPHEN
    ELSE 0

\* re.match(r'^(.+)-(\d+)$', item) succeeds and the prefix has a hyphen
\* after its first character
IsRunName(item) ==
    /\ Len(item) >= 3
    /\ item[Len(item)] \in Numerals
    /\ item[Len(item) - 1] = HYPHEN
    /\ LastHyphen(SubSeq(item, 1, Len(item) - 2)) > 1

\* the key and run index _detect_existing_runs reads from a name:
\* <<structure_en, intention_en, run_index>>
ParsedRun(item) ==
    LET prefix == SubSeq(item, 1, Len(item) - 2)
        last_dash == LastHyphen(prefix)
    IN  << SubSeq(prefix, 1, last_dash - 1),
           SubSeq(prefix, last_dash + 1, Len(prefix)),
           IntOf(item[Len(item)]) >>

\* _detect_existing_runs on the listing out of the output directory: the
\* runs found, as <<structure_en, intention_en, run_index>>
DetectExistingRuns(out) ==
    IF ~out.exists
    THEN {}
    ELSE { ParsedRun(item) :
               item \in { f \in out.folders : f # <<"report">> /\ IsRunName(f) } }
         \cup
         { ParsedRun(SubSeq(item, 1, Len(item) - 1)) :
               item \in { f \in out.reports :
                              /\ f # <<>>
                              /\ f[Len(f)] = MD
                              /\ IsRunName(SubSeq(f, 1, Len(f) - 1)) } }

\* the triples of generate_plan's three nested loops, in the loops' order
AllRuns(structs, intents, n) ==
    [ k \in 1..(Len(structs) * Len(intents) * n) |->
        << structs[((k - 1) \div (Len(intents) * n)) + 1],
           intents[(((k - 1) \div n) % Len(intents)) + 1],
           ((k - 1) % n) + 1 >> ]

\* the plan of generate_plan listing every run, whatever exists
PlanOf_Everything(structs, intents, n, out) == AllRuns(structs, intents, n)

\* the plan of generate_plan: the runs _detect_existing_runs did not find
PlanOf(structs, intents, n, out) ==
    LET existing_runs == DetectExistingRuns(out)
        Missing(t) ==
            LET en == TranslateToEnglish(t[1], t[2])
            IN  <<en[1], en[2], t[3]>> \notin existing_runs
    IN  SelectSeq(AllRuns(structs, intents, n), Missing)

\* self._plan[self._plan_index] with the index ignored
PlanEntry_First(p, index) == p[1]

\* self._plan[self._plan_index]
PlanEntry(p, index) == p[index + 1]

\* the structure lists and intention lists the data directory may hold
StructureLists ==
    { << <<"kuangjia">> >>,
      << <<"kuangjia">>, <<"kuangjia", "jianliqiang", JIEGOU>> >>,
      << <<"Steel", JIEGOU>> >>,
      << >> }

IntentionLists ==
    { << <<"jingli">> >>,
      << <<"jingli">>, <<"Pushover", WS, "analysis">> >>,
      << >> }

\* the folders and the report files the output directory may hold
FolderNames ==
    { <<"frame", HYPHEN, "statics", HYPHEN, "1">>,
      <<"frame", HYPHEN, "statics", HYPHEN, "01">>,
      <<"frame", HYPHEN, "pushover", HYPHEN, "analysis", HYPHEN, "1">>,
      <<"frame", HYPHEN, "wall", HYPHEN, "statics", HYPHEN, "2">>,
      <<"report">> }

ReportNames ==
    { <<"frame", HYPHEN, "statics", HYPHEN, "2", MD>>,
      <<"steel", HYPHEN, "statics", HYPHEN, "1", MD>>,
      <<"frame", HYPHEN, "statics", HYPHEN, "1", ".txt">> }

OutputDirs ==
    [ exists : {TRUE}, folders : SUBSET FolderNames, reports : SUBSET ReportNames ]
    \cup { [exists |-> FALSE, folders |-> {}, reports |-> {}] }

SamplerInit ==
    /\ structures \in StructureLists
    /\ intentions \in IntentionLists
    /\ output_dir \in OutputDirs
    /\ run_count = 0
    /\ plan = <<>>
    /\ plan_index = 0
    /\ planned = FALSE
    /\ sampled = <<>>
    /\ stops = 0
    /\ sampler_raised = "none"
    /\ engine_runs = <<>>

\* the run counts get_run_count may return: the memoized one, or the
\* positive integer the user enters
RunCounts == IF run_count = 0 THEN 1..MaxRunCount ELSE {run_count}

\* generate_plan, called on its own
GeneratePlan ==
    /\ IF structures = <<>> \/ intentions = <<>>
       THEN /\ sampler_raised' = "ValueError"
            /\ UNCHANGED <<run_count, plan, plan_index, planned, sampled, stops>>
       ELSE /\ \E n \in RunCounts :
                   /\ run_count' = n
                   /\ plan' = PlanOf(structures, intentions, n, output_dir)
            /\ plan_index' = 0
            /\ planned' = TRUE
            /\ sampled' = <<>>
            /\ stops' = 0
            /\ sampler_raised' = "none"
    /\ UNCHANGED <<structures, intentions, output_dir, engine_runs>>
    /\ UNCHANGED <<loopVars, flowVars, envVars, oracleVars, besideSampler>>

\* sample(): generate the plan when there is none, then return the next
\* entry, or raise StopIteration
Sample ==
    /\ stops < MaxStops
    /\ IF plan = <<>> /\ (structures = <<>> \/ intentions = <<>>)
       THEN /\ sampler_raised' = "ValueError"
            /\ UNCHANGED <<run_count, plan, plan_index, planned, sampled, stops>>
       ELSE \E n \in RunCounts :
                LET fresh == plan = <<>>
                    p == IF fresh
                         THEN PlanOf(structures, intentions, n, output_dir)
                         ELSE plan
                    index == IF fresh THEN 0 ELSE plan_index
                    before == IF fresh THEN <<>> ELSE sampled
                    stopped == IF fresh THEN 0 ELSE stops
                IN  /\ run_count' = IF fresh THEN n ELSE run_count
                    /\ plan' = p
                    /\ planned' = (planned \/ fresh)
                    /\ IF index >= Len(p)
                       THEN /\ sampler_raised' = "StopIteration"
                            /\ stops' = stopped + 1
                            /\ plan_index' = index
                            /\ sampled' = before
                       ELSE /\ sampler_raised' = "none"
                            /\ stops' = stopped
                            /\ plan_index' = index + 1
                            /\ sampled' = Append(before, PlanEntry(p, index))
    /\ UNCHANGED <<structures, intentions, output_dir, engine_runs>>
    /\ UNCHANGED <<loopVars, flowVars, envVars, oracleVars, besideSampler>>

\* a sampler whose data directory holds one structure and one intention,
\* and on which nothing has been called
SamplerIdle ==
    /\ SamplerInit
    /\ structures = << <<"kuangjia">> >>
    /\ intentions = << <<"jingli">> >>
    /\ ~output_dir.exists

(***************************************************************************)
(* The engine and the sampler on one output directory: InferenceEngine.run *)
(* (src/pipeline/inference.py) leaves the folders that generate_plan       *)
(* (src/pipeline/sampler.py) reads in a later session.                     *)
(***************************************************************************)
\* what the _save_code calls of one run may have done, taken together: none
\* got as far as making the folder, the folder was made and no write
\* succeeded, or an artifact was written
SaveEffects == { "none", "folder", "artifact" }

\* the listing of the output directory after os.makedirs of a run's folder
WithFolder(out, folder_name) ==
    [exists |-> TRUE, folders |-> out.folders \cup {folder_name},
     reports |-> out.reports]

\* run(prompt, structure, intention, run_index) from start to end, as the
\* output directory sees it; the engine translates the names as the sampler
\* does
EngineRunFor ==
    /\ Len(engine_runs) < MaxEngineRuns
    /\ \E si \in DOMAIN structures, ii \in DOMAIN intentions,
          r \in 1..MaxRunCount, effect \in SaveEffects :
           LET en == TranslateToEnglish(structures[si], intentions[ii])
           IN  /\ output_dir' =
                      IF effect = "none"
                      THEN output_dir
                      ELSE WithFolder(output_dir, RunName(en[1], en[2], r))
               /\ engine_runs' =
                      Append(engine_runs, [structure |-> structures[si],
                                           intention |-> intentions[ii],
                                           run_index |-> r,
                                           effect |-> effect])
    /\ UNCHANGED <<structures, intentions, run_count, plan, plan_index,
                   planned, sampled, stops, sampler_raised>>
    /\ UNCHANGED <<loopVars, flowVars, envVars, oracleVars, besideSampler>>

\* a new session: Sampler.__init__ on the same data and output directory
NewSampler ==
    /\ planned
    /\ run_count' = 0
    /\ plan' = <<>>
    /\ plan_index' = 0
    /\ planned' = FALSE
    /\ sampled' = <<>>
    /\ stops' = 0
    /\ sampler_raised' = "none"
    /\ UNCHANGED <<structures, intentions, output_dir, engine_runs>>
    /\ UNCHANGED <<loopVars, flowVars, envVars, oracleVars, besideSampler>>

(***************************************************************************)
(* The check against the reference executable:                             *)
(* ResultPostprocessor.verify_with_local_opensees                          *)
(* (src/pipeline/postprocess.py).                                          *)
(***************************************************************************)
\* what os.environ.get("OPENSEES_CMD") may be
EnvCommands == { None, <<>>, <<"/opt/OpenSees/bin/OpenSees">> }

\* self.opensees_cmd_candidates for a value of OPENSEES_CMD
CmdCandidates(from_env) ==
    << from_env, <<"D:/OpenSees3.7.1/bin/OpenSees.exe">>,
       <<"D:/OpenSees3.7.1/bin/OpenSees">>, <<"OpenSees.exe">>, <<"OpenSees">>,
       <<"opensees.exe">>, <<"opensees">> >>

\* how the probe of one candidate may end: it is a file, it is on the PATH,
\* it is neither, or the probe raises
ProbeOutcomes == { "isfile", "which", "absent", "exception" }

\* what writing the temporary TCL file may do
TclWriteOutcomes == { "ok", "exception" }

\* what subprocess.run of the reference executable and the summary of its
\* output may do
VerifyRunOutcomes ==
    { [kind |-> "exit", rc |-> 0], [kind |-> "exit", rc |-> 1],
      [kind |-> "exit", rc |-> 139],
      [kind |-> "summary raises", rc |-> 0],
      [kind |-> "summary raises", rc |-> 1],
      [kind |-> "TimeoutExpired", rc |-> 0],
      [kind |-> "FileNotFoundError", rc |-> 0],
      [kind |-> "Exception", rc |-> 0] }

\* the run recorded as passed without being recorded as invoked
AfterVerifyRun_PassedOnly(r, proc) ==
    [r EXCEPT !.passed = TRUE, !.message = "run"]

\* the result after the try of subprocess.run
AfterVerifyRun(r, proc) ==
    CASE proc.kind = "exit" ->
            [r EXCEPT !.invoked = TRUE,
                      !.return_code = proc.rc,
                      !.passed = (proc.rc = 0),
                      !.message = IF proc.rc = 0 THEN "run passed"
                                  ELSE "run failed"]
      [] proc.kind = "summary raises" ->
            [r EXCEPT !.invoked = TRUE,
                      !.return_code = proc.rc,
                      !.passed = (proc.rc = 0),
                      !.message = "exception"]
      [] proc.kind = "TimeoutExpired" -> [r EXCEPT !.message = "timeout"]
      [] proc.kind = "FileNotFoundError" ->
            [r EXCEPT !.message = "executable not found"]
      [] OTHER -> [r EXCEPT !.message = "exception"]

VerifyInit ==
    /\ vpc = "find"
    /\ \E from_env \in EnvCommands :
           opensees_cmd_candidates = CmdCandidates(from_env)
    /\ vidx = 1
    /\ probes = <<>>
    /\ verification =
           [available |-> FALSE, invoked |-> FALSE, passed |-> FALSE,
            return_code |-> -1, cmd |-> None, tcl_file |-> None,
            message |-> ""]

\* _find_opensees_cmd at one candidate, and when it returns, the branch of
\* verify_with_local_opensees on what it returned
VerifyFind ==
    /\ vpc = "find"
    /\ LET candidate == opensees_cmd_candidates[vidx]
           Goes(outcome) ==
               /\ probes' = Append(probes, outcome)
               /\ IF outcome \in {"isfile", "which"}
                  THEN /\ verification' =
                              [verification EXCEPT
                                   !.available = TRUE,
                                   !.cmd = <<outcome>> \o candidate]
                       /\ vpc' = "write"
                       /\ UNCHANGED vidx
                  ELSE IF vidx < Len(opensees_cmd_candidates)
                  THEN /\ vidx' = vidx + 1
                       /\ UNCHANGED <<vpc, verification>>
                  ELSE /\ verification' =
                              [verification EXCEPT !.message = "not found"]
                       /\ vpc' = "returned"
                       /\ UNCHANGED vidx
       IN  IF ~Truthy(candidate)
           THEN Goes("skipped")
           ELSE \E outcome \in ProbeOutcomes : Goes(outcome)
    /\ UNCHANGED opensees_cmd_candidates
    /\ UNCHANGED <<loopVars, flowVars, envVars, oracleVars, besideVerify>>

\* the temporary TCL file is written, or the failure to is reported
VerifyWrite ==
    /\ vpc = "write"
    /\ \E w \in TclWriteOutcomes :
           IF w = "ok"
           THEN /\ verification' =
                       [verification EXCEPT !.tcl_file = <<"verify_.tcl">>]
                /\ vpc' = "run"
           ELSE /\ verification' =
                       [verification EXCEPT !.message = "write failed"]
                /\ vpc' = "returned"
    /\ UNCHANGED <<opensees_cmd_candidates, vidx, probes>>
    /\ UNCHANGED <<loopVars, flowVars, envVars, oracleVars, besideVerify>>

\* the reference executable is run on the file, and the result returned
VerifyRun ==
    /\ vpc = "run"
    /\ \E proc \in VerifyRunOutcomes :
           verification' = AfterVerifyRun(verification, proc)
    /\ vpc' = "returned"
    /\ UNCHANGED <<opensees_cmd_candidates, vidx, probes>>
    /\ UNCHANGED <<loopVars, flowVars, envVars, oracleVars, besideVerify>>

\* a postprocessor without OPENSEES_CMD on which nothing has been called
VerifyIdle ==
    /\ VerifyInit
    /\ opensees_cmd_candidates = CmdCandidates(None)

(***************************************************************************)
(* The short prompt: PromptGenerator.generate_prompt                       *)
(* (src/pipeline/prompt.py).  Texts are sequences of characters.           *)
(***************************************************************************)
DQUOTE == "\""
SQUOTE == "'"

\* the characters of the oracle's texts, by position
Letters ==
    << "a", "b", "c", "d", "e", "f", "g", "h", "i", "j", "k", "l", "m", "n",
       "o", "p" >>

\* the length generate_prompt cuts its answer to
PromptLimit == 10

\* a text of n characters behind lead blanks and before a newline, with a
\* double quote at place q and a single quote three places on
PromptText(n, q, lead) ==
    [ i \in 1..lead |-> WS ]
    \o [ i \in 1..n |-> IF i = q THEN DQUOTE
                        ELSE IF i = q + 3 THEN SQUOTE
                        ELSE Letters[i] ]
    \o <<NL>>

\* the texts the oracle may answer the prompt generator with
PromptTexts ==
    { PromptText(n, q, lead) :
          n \in 0..MaxResponseLen, q \in 0..MaxResponseLen, lead \in 0..1 }

\* the intentions generate_prompt is called with; the words stand for the
\* characters of the names
PromptIntentions ==
    { <<"nei", "li", "fan", "li">>, <<"wei", "yi", "bian", "xing">>,
      <<"mo", "tai", "fen", "xi">>, <<"jing", "li", "fen", "xi">> }

\* text.replace('"', '').replace("'", '')
RemoveQuotes(text) == SelectSeq(text, LAMBDA c : c \notin {DQUOTE, SQUOTE})

\* the answer handed on whole
FirstTen_Whole(text) == text

\* if len(cleaned_response) > 10: cleaned_response[:10]
FirstTen(text) ==
    IF Len(text) > PromptLimit THEN SubSeq(text, 1, PromptLimit) ELSE text

\* _get_default_prompt
GetDefaultPrompt(intention) ==
    CASE intention = <<"nei", "li", "fan", "li">> -> <<"ji", "suan", "nei", "li">>
      [] intention = <<"wei", "yi", "bian", "xing">> -> <<"ji", "suan", "wei", "yi">>
      [] intention = <<"mo", "tai", "fen", "xi">> -> <<"mo", "tai", "fen", "xi">>
      [] OTHER -> <<"jie", "gou", "fen", "xi">>

\* what generate_prompt returns for what call_gemini returned
PromptFor(intention, response) ==
    IF Truthy(response)
    THEN FirstTen(RemoveQuotes(Strip(response)))
    ELSE GetDefaultPrompt(intention)

PromptInit ==
    /\ ppc = "call"
    /\ p_intention \in PromptIntentions
    /\ p_response = None
    /\ p_prompt = None

\* generate_prompt: one call of call_gemini, and the prompt made of it
GeneratePromptCall ==
    /\ ppc = "call"
    /\ \E t \in TransportOutcomes
              \cup { Transport("response", 200, "parts", text) :
                         text \in PromptTexts } :
           LET response == PromptCallGemini(t)
           IN  /\ p_response' = response
               /\ p_prompt' = PromptFor(p_intention, response)
    /\ ppc' = "returned"
    /\ UNCHANGED p_intention
    /\ UNCHANGED <<loopVars, flowVars, envVars, oracleVars, besidePrompt>>

\* the caller asks for another prompt
GeneratePromptAgain ==
    /\ ppc = "returned"
    /\ ppc' = "call"
    /\ \E intention \in PromptIntentions : p_intention' = intention
    /\ p_response' = None
    /\ p_prompt' = None
    /\ UNCHANGED <<loopVars, flowVars, envVars, oracleVars, besidePrompt>>

\* a prompt generator on which nothing has been called
PromptIdle ==
    /\ PromptInit
    /\ p_intention = <<"mo", "tai", "fen", "xi">>

(***************************************************************************)
(* Functions called on their own.  The compatibility probe:                *)
(* OpenSeesSingleTurnAgent._test_openseespy_compatibility (src/llm.py).    *)
(***************************************************************************)
CallInit ==
    /\ fn = "none"
    /\ fn_in = <<>>
    /\ fn_out = <<>>

\* what the probe process may print
ProbeOutputs ==
    { <<>>, <<"OK", NL>>, <<"OK">>, <<"banner", NL, "OK", NL>>,
      <<"ok", NL>>, <<"Traceback">> }

\* what subprocess.run of the probe may do
ProbeRuns ==
    [ kind : {"exit"}, rc : {0, 1, 2}, out : ProbeOutputs ]
    \cup [ kind : {"TimeoutExpired", "FileNotFoundError", "PermissionError",
                   "Exception"},
           rc : {0}, out : {<<>>} ]

\* the probe trusting the exit code alone
ProbeVerdict_ExitCodeOnly(run) == run.kind = "exit" /\ run.rc = 0

\* _test_openseespy_compatibility: what it returns for what the probe
\* process did
ProbeVerdict(run) ==
    IF run.kind = "exit"
    THEN run.rc = 0 /\ \E i \in 1..Len(run.out) : run.out[i] = "OK"
    ELSE FALSE

\* one call of _test_openseespy_compatibility(python_exe)
ProbeCall ==
    /\ \E exe \in CandidateSet \cup {VenvPython}, run \in ProbeRuns :
           /\ fn_in' = [python_exe |-> exe, run |-> run]
           /\ fn_out' = ProbeVerdict(run)
    /\ fn' = "probe"
    /\ UNCHANGED <<loopVars, flowVars, envVars, oracleVars, besideCall>>

\* the numbers _extract_numerical_values may find in an output text, as the
\* regular expression returns them
NumberTokens == { "0", "10", "11", "20", "1e3" }

\* the lists of numbers found in one output text
ValueLists ==
    UNION { [1..n -> NumberTokens] : n \in 0..MaxValues }

\* v.replace('.', '').replace('-', '').isdigit()
IsPlainNumber(v) == v # "1e3"

\* float(v) for a plain number
FloatOf(v) ==
    CASE v = "0" -> 0
      [] v = "10" -> 10
      [] v = "11" -> 11
      [] OTHER -> 20

\* the plain numbers of a list, converted
PlainNumbers(vals) ==
    LET plain == SelectSeq(vals, IsPlainNumber)
    IN  [ k \in 1..Len(plain) |-> FloatOf(plain[k]) ]

\* abs(a - b)
AbsDiff(a, b) == IF a >= b THEN a - b ELSE b - a

\* sum(differences) in units of 1/220, which every abs(local_numbers[i])
\* of the model divides
SumDifferences(llm_numbers, local_numbers) ==
    LET RECURSIVE Upto(_)
        Upto(k) ==
            IF k = 0
            THEN 0
            ELSE Upto(k - 1)
                 + IF local_numbers[k] # 0
                   THEN AbsDiff(llm_numbers[k], local_numbers[k])
                            * (220 \div local_numbers[k])
                   ELSE 0
    IN  Upto(Len(llm_numbers))

\* the results process_single_turn may hand to compare_results: success,
\* execution_result (empty, or what _step_exec made), and the numbers in
\* the stdout of the execution
LlmResults ==
    [ success : BOOLEAN, execution_result : {EmptyDict} ]
    \cup [ success : BOOLEAN,
           execution_result : [ success : BOOLEAN, stdout : ValueLists ] ]

\* the results verify_with_local_opensees may hand to compare_results:
\* passed, and the numbers in its stdout and stderr
LocalResults == [ passed : BOOLEAN, output : ValueLists ]

\* compare_results reporting a pair comparable whatever the two sides did
CompareResults_AlwaysComparable(llm_result, local_result) ==
    [comparable |-> TRUE, consistent |-> TRUE]

\* compare_results: the comparable and consistent entries of the comparison
CompareResults(llm_result, local_result) ==
    LET llm_exec == llm_result.execution_result
        has_llm_result ==
            llm_result.success /\ HasKeys(llm_exec) /\ llm_exec.success
        has_local_result == local_result.passed
    IN  IF ~has_llm_result \/ ~has_local_result
        THEN [comparable |-> FALSE, consistent |-> FALSE]
        ELSE LET llm_values == llm_exec.stdout
                 local_values == local_result.output
                 llm_numbers == PlainNumbers(llm_values)
                 local_numbers == PlainNumbers(local_values)
             IN  [comparable |-> TRUE,
                  consistent |->
                      IF llm_values # <<>> /\ local_values # <<>>
                      THEN IF /\ llm_numbers # <<>>
                              /\ local_numbers # <<>>
                              /\ Len(llm_numbers) = Len(local_numbers)
                           THEN 10 * SumDifferences(llm_numbers, local_numbers)
                                    < 220 * Len(llm_numbers)
                           ELSE FALSE
                      ELSE has_llm_result /\ has_local_result]

\* the two results a caller holds before it calls compare_results
CompareInit ==
    /\ fn = "none"
    /\ fn_in \in [ llm_result : LlmResults, local_result : LocalResults ]
    /\ fn_out = <<>>

\* one call of compare_results(llm_result, local_result) on the results held
CompareCall ==
    /\ fn_out' = CompareResults(fn_in.llm_result, fn_in.local_result)
    /\ fn' = "compare"
    /\ UNCHANGED fn_in
    /\ UNCHANGED <<loopVars, flowVars, envVars, oracleVars, besideCall>>

vars == <<loopVars, flowVars, envVars, oracleVars, auxVars>>

\* no agent at work beside the controller under study
AuxIdle == BatchInit /\ count = 1 /\ CliInit /\ AgentInit /\ SamplerIdle /\ VerifyIdle /\ PromptIdle /\ CallInit

Idle == EnvInit /\ world = BareWorld /\ OracleInit /\ AuxIdle

Init == LoopInit /\ FlowInit /\ Idle

\* the repair loop alone
Next == Generate \/ SaveCode \/ Run \/ Analyze \/ Return

Spec == Init /\ [][Next]_vars

\* the workflow's start, beside an engine that is not running
InitFlow == LoopInit /\ max_iterations = 1 /\ FlowInit /\ Idle

\* the gated workflow alone
NextFlow ==
    StepThink \/ StepCode \/ StepExtract \/ StepWrite \/ StepExec
        \/ StepReturnResult

SpecFlow == InitFlow /\ [][NextFlow]_vars

\* the environment of one agent alone: its setup, then its resolver calls
InitEnv ==
    LoopInit /\ max_iterations = 1 /\ FlowInit /\ EnvInit /\ OracleInit
        /\ AuxIdle

NextEnv ==
    SetupFind \/ SetupVenvCheck \/ CreateVenv \/ PipUpgrade \/ InstallBase
        \/ InstallMethod \/ CreateUsageFile \/ CallGetPythonExecutable

SpecEnv == InitEnv /\ [][NextEnv]_vars

\* the oracle transport alone: a sequence of call_gemini calls
InitOracle == LoopInit /\ max_iterations = 1 /\ FlowInit /\ Idle

NextOracle == AgentCallGemini \/ GeneratorCallGemini

SpecOracle == InitOracle /\ [][NextOracle]_vars

\* the two artifact runners in one process, one after the other: an agent
\* processes one turn, then an engine with a budget of one iteration runs
InitRunners == LoopInit /\ max_iterations = 1 /\ FlowInit /\ Idle

\* the engine's run, started when the agent's turn is over
EngineRun ==
    /\ wpc \in {"returned", "raised"}
    /\ (Generate \/ SaveCode \/ Run \/ Analyze \/ Return)

NextRunners ==
    StepThink \/ StepCode \/ StepExtract \/ StepWrite \/ StepExec
        \/ StepReturnResult \/ EngineRun

SpecRunners == InitRunners /\ [][NextRunners]_vars

\* the batch of tasks alone
InitCli ==
    LoopInit /\ max_iterations = 1 /\ FlowInit /\ EnvInit /\ world = BareWorld
    /\ OracleInit /\ BatchInit /\ count = 1 /\ CliInit /\ AgentInit
    /\ SamplerIdle /\ VerifyIdle /\ PromptIdle /\ CallInit

NextCli == CliStart \/ CliTurn \/ CliExit

SpecCli == InitCli /\ [][NextCli]_vars

InitTurns == LoopInit /\ max_iterations = 1 /\ FlowInit /\ Idle

NextTurns ==
    \/ StepThink
    \/ StepCode
    \/ StepExtract
    \/ StepWrite
    \/ StepExec
    \/ StepReturnResult
    \/ NextTurn

SpecTurns == InitTurns /\ [][NextTurns]_vars

InitSampler ==
    LoopInit /\ max_iterations = 1 /\ FlowInit /\ EnvInit /\ world = BareWorld
    /\ OracleInit /\ BatchInit /\ count = 1 /\ CliInit /\ AgentInit
    /\ SamplerInit /\ VerifyIdle /\ PromptIdle /\ CallInit

NextSampler == GeneratePlan \/ Sample

SpecSampler == InitSampler /\ [][NextSampler]_vars

\* sessions on an output directory that holds no run folder yet
InitSessions == InitSampler /\ output_dir.folders = {}

NextSessions == GeneratePlan \/ Sample \/ EngineRunFor \/ NewSampler

SpecSessions == InitSessions /\ [][NextSessions]_vars

InitVerify ==
    LoopInit /\ max_iterations = 1 /\ FlowInit /\ EnvInit /\ world = BareWorld
    /\ OracleInit /\ BatchInit /\ count = 1 /\ CliInit /\ AgentInit
    /\ SamplerIdle /\ VerifyInit /\ PromptIdle /\ CallInit

NextVerify == VerifyFind \/ VerifyWrite \/ VerifyRun

SpecVerify == InitVerify /\ [][NextVerify]_vars

InitPrompt ==
    LoopInit /\ max_iterations = 1 /\ FlowInit /\ EnvInit /\ world = BareWorld
    /\ OracleInit /\ BatchInit /\ count = 1 /\ CliInit /\ AgentInit
    /\ SamplerIdle /\ VerifyIdle /\ PromptInit /\ CallInit

NextPrompt == GeneratePromptCall \/ GeneratePromptAgain

SpecPrompt == InitPrompt /\ [][NextPrompt]_vars

InitProbe == LoopInit /\ max_iterations = 1 /\ FlowInit /\ Idle

NextProbe == ProbeCall

SpecProbe == InitProbe /\ [][NextProbe]_vars

InitCompare ==
    LoopInit /\ max_iterations = 1 /\ FlowInit /\ EnvInit /\ world = BareWorld
    /\ OracleInit /\ BatchInit /\ count = 1 /\ CliInit /\ AgentInit
    /\ SamplerIdle /\ VerifyIdle /\ PromptIdle /\ CompareInit

NextCompare == CompareCall

SpecCompare == InitCompare /\ [][NextCompare]_vars

InitBatch ==
    LoopInit /\ max_iterations = 1 /\ FlowInit /\ EnvInit
        /\ world = BareWorld /\ OracleInit /\ BatchInit /\ CliInit
        /\ AgentInit /\ SamplerIdle /\ VerifyIdle /\ PromptIdle /\ CallInit

NextBatch ==
    BatchSample \/ BatchTcl \/ BatchPrompt \/ BatchAnalyze \/ BatchSave
        \/ BatchFinish

SpecBatch == InitBatch /\ [][NextBatch]_vars

(***************************************************************************)
(* Properties of the repair loop.                                          *)
(***************************************************************************)
NRecords == Len(iterations_info)

InIteration == pc \in {"generate", "save", "run", "analyze"}

LoopEnded == pc \in {"return", "done"}

\* record i was written by the except branch
IsExceptionRecord(i) == iterations_info[i].filepath = None

\* the reason record i carries
RecordedReason(i) ==
    IF IsExceptionRecord(i)
    THEN iterations_info[i].error
    ELSE iterations_info[i].error_info

\* the oracle's answer is the affirmative one: the success word alone
Affirmative(answer) == Truthy(answer) /\ Strip(answer) = <<OKWORD>>

\* the locals success, analysis, is_success belong to one classification
Classified == runner_log # <<>> /\ pc # "analyze"

\* C1: run appends at most max_iterations records, record i has index i,
\* every started iteration has exactly one record once it has ended and none
\* before, and no iteration is started after a record with success = true.
C1_BoundedStopsAtSuccess ==
    /\ NRecords <= max_iterations
    /\ \A i \in 1..NRecords : iterations_info[i].iteration = i
    /\ InIteration => NRecords = iteration - 1
    /\ LoopEnded => NRecords = iteration
    /\ \A i \in 1..NRecords :
           iterations_info[i].success => (i = NRecords /\ LoopEnded)

C1_Witness ==
    /\ pc = "done"
    /\ max_iterations = 3
    /\ NRecords = 2
    /\ ~iterations_info[1].success
    /\ iterations_info[2].success

\* C2: after an execution that exited with status 0 the verdict is_success
\* is true only if the confirmation answer of the oracle was affirmative.
C2_ExitOkNeedsAffirmation ==
    (Classified /\ success /\ is_success) => Affirmative(analysis)

\* C3: an execution outcome that is not Ok is always classified as failed,
\* whatever the root-cause call returned.
C3_NotOkIsFailed ==
    (Classified /\ ~success) => ~is_success

\* C4: when every artifact execution of the run returned a non-zero exit
\* status, run has produced exactly max_iterations records, all with
\* success = false, and final_success is false.
C4_AlwaysNonZeroExhaustsBudget ==
    (pc = "done" /\ \A k \in 1..Len(runner_log) : runner_log[k] = "NonZero")
        => /\ NRecords = max_iterations
           /\ \A i \in 1..NRecords : ~iterations_info[i].success
           /\ ~result.final_success

\* every execution returned Ok and every confirmation call affirmed
AlwaysOkAndAffirmed ==
    /\ \A k \in 1..Len(runner_log) : runner_log[k] = "Ok"
    /\ runner_log # <<>> => Affirmative(analysis)

FirstExitedNonZeroWithStderr ==
    /\ NRecords >= 1
    /\ ~IsExceptionRecord(1)
    /\ runner_log[1] = "NonZero"
    /\ iterations_info[1].stderr # None

\* iteration 2 has built its prompt and has not classified yet, so that
\* analysis still is the answer to the classification of iteration 1
SecondPromptBuilt == iteration = 2 /\ pc \in {"save", "run", "analyze"}

C10_PromptHasPreviousArtifactAndReason ==
    (iteration > 1 /\ pc \in {"save", "run", "analyze"})
        => /\ Head(system_prompt) = "REPAIR:"
           /\ last_artifact # None => IsInfix(last_artifact, system_prompt)
           /\ RecordedReason(iteration - 1) # None
                  => IsInfix(RecordedReason(iteration - 1), system_prompt)

\* the step function of the stage ran and returned True
Succeeded(step) == step \in invoked /\ step \in DOMAIN returned /\ returned[step]

\* C11: an iteration whose body raised has exactly one record, and that record
\* has no artifact path, success = false and the exception text as its reason;
\* after it the loop has started the next iteration if the budget allows one
\* and has stopped otherwise; every ended iteration has one record, and a run
\* that has returned carries all of them in its result.
C11_ExceptionRecordedAndLoopGoesOn ==
    /\ Len(exceptions) = NRecords
    /\ \A i \in 1..Len(exceptions) :
           exceptions[i] # None =>
               /\ iterations_info[i].iteration = i
               /\ iterations_info[i].filepath = None
               /\ iterations_info[i].success = FALSE
               /\ iterations_info[i].error = exceptions[i]
               /\ i < max_iterations => iteration > i
               /\ i = max_iterations => LoopEnded
    /\ pc = "done" => result.iterations = iterations_info

\* a returned run in which the execution of iteration 1 and the
\* classification of iteration 2 raised and iteration 3 raised nothing
C11_Witness ==
    /\ pc = "done"
    /\ NRecords = 3
    /\ exceptions[1] = <<"resolver failed">>
    /\ exceptions[2] = <<"oracle call failed">>
    /\ exceptions[3] = None

\* C12: when an execution did not end Ok and the oracle call of the
\* classification returned nothing, the iteration is recorded with the
\* streams of its execution, its verdict is failed with the raw stderr as the
\* reason, and the prompt of the next generation carries that stderr.
C12_NoAnalysisFallsBackToStderr ==
    ( /\ pc \in {"save", "run"}
      /\ iteration > 1
      /\ ~IsExceptionRecord(iteration - 1)
      /\ runner_log[Len(runner_log)] # "Ok"
      /\ ~Truthy(analysis) )
    => /\ iterations_info[iteration - 1].stdout = stdout
       /\ iterations_info[iteration - 1].stderr = stderr
       /\ iterations_info[iteration - 1].success = FALSE
       /\ iterations_info[iteration - 1].error_info = stderr
       /\ Truthy(stderr) => IsInfix(stderr, system_prompt)

\* C13: once a _get_python_executable call of the engine has returned, every
\* later call returns the identifier the first call returned and the resolver
\* is not called again, whatever the resolver would answer by then.
C13_EngineResolvesOnce ==
    [][exe_log # <<>> =>
           /\ resolutions' = resolutions
           /\ \A i \in DOMAIN exe_log' : exe_log'[i] = exe_log[1]]_vars

\* three executions of one run after one resolution
C13_Witness ==
    /\ Len(exe_log) = 3
    /\ resolutions = 1
    /\ python_exe = <<"python3">>

(***************************************************************************)
(* Properties of the environment of the agent.                             *)
(***************************************************************************)
\* the identifier the latest get_python_executable call returned
LastExecutable == python_log[Len(python_log)]

\* the order of candidates as the specification of the resolver gives it:
\* ambient runtimes, managed runtime, well-known install paths
ClaimedOrder ==
    << "python", "python3", VenvPython, "/usr/bin/python3",
       "/opt/homebrew/bin/python3", "/usr/local/bin/python3" >>

\* the managed runtime first, then the ambient ones, then the install paths
ManagedFirstOrder == <<VenvPython>> \o PythonCandidates

\* exe is the first member of order whose probe succeeds in the world of the
\* latest call
FirstCompatibleIn(order, exe) ==
    \E j \in DOMAIN order :
        /\ order[j] = exe
        /\ TestCompatibility(world, exe)
        /\ \A i \in 1..(j - 1) : ~TestCompatibility(world, order[i])

SomeCompatible ==
    \E c \in CandidateSet \cup {VenvPython} : TestCompatibility(world, c)

\* C14: within one session every get_python_executable call after the first
\* returns the identifier the first call returned.
C14_AgentResolvesOnce ==
    \A i \in DOMAIN python_log : python_log[i] = python_log[1]

\* C15: a call returns the first compatible candidate in the order ambient
\* runtimes, managed runtime, well-known install paths.
C15_FirstCompatibleAmbientFirst ==
    (python_log # <<>> /\ SomeCompatible)
        => FirstCompatibleIn(ClaimedOrder, LastExecutable)

\* C15 amended: a call returns the first compatible candidate in the order
\* managed runtime (when its directory and interpreter exist), ambient
\* runtimes python and python3, well-known install paths; no candidate later
\* in that order is returned while an earlier one is compatible.
C15_FirstCompatibleManagedFirst ==
    (python_log # <<>> /\ SomeCompatible)
        => FirstCompatibleIn(ManagedFirstOrder, LastExecutable)

\* a call that found the managed runtime, an ambient one and an install path
\* compatible
C15_Witness ==
    /\ python_log # <<>>
    /\ world.venv_dir /\ world.venv_python
    /\ world.compatible = {VenvPython, "python3", "/usr/bin/python3"}
    /\ LastExecutable = VenvPython

\* C16: setup_environment does not raise, whatever provisioning step fails;
\* a call returns a candidate whose probe has just succeeded or the degraded
\* handle python3, and the degraded handle when no probe succeeds.
C16_SetupNeverRaisesAndDegrades ==
    /\ epc # "raised"
    /\ python_log # <<>> =>
           /\ TestCompatibility(world, LastExecutable)
                  \/ LastExecutable = "python3"
           /\ ~SomeCompatible => LastExecutable = "python3"

\* the upgrade of pip failed for a missing interpreter, setup returned, no
\* runtime is compatible and the call returned the degraded handle
C16_Witness ==
    /\ epc = "ready"
    /\ \E k \in DOMAIN setup_log :
           /\ setup_log[k].step = "pip"
           /\ setup_log[k].outcome = "FileNotFoundError"
    /\ ~SomeCompatible
    /\ python_log = <<"python3">>

\* the provisioning steps of one kind, in the order they were run
Steps(name) == SelectSeq(setup_log, LAMBDA e : e.step = name)

\* install method n was installed and its probe succeeded
MethodSucceeded(n) ==
    \E k \in DOMAIN setup_log :
        /\ setup_log[k] = Logged("install", n, "ok")
        /\ k < Len(setup_log)
        /\ setup_log[k + 1] = Logged("probe", n, "ok")

\* _install_openseespy_packages has been entered and left
InstallPhaseOver ==
    /\ epc \in {"usage", "ready"}
    /\ Steps("pip") = <<Logged("pip", 1, "ok")>>

NeedsVenv(w) ==
    /\ "python" \notin w.compatible
    /\ "python3" \notin w.compatible
    /\ ~(w.venv_dir /\ w.venv_python /\ VenvPython \in w.compatible)

\* setup_environment has returned or raised
SetupOver == epc \in {"ready", "raised"}

\* C39: setup_environment goes on to create the managed runtime if and only
\* if neither ambient runtime ('python', 'python3') probes compatible and
\* there is no existing managed runtime whose python probes compatible;
\* otherwise it returns without creating or installing anything. Up to the
\* first provisioning step the machine is as setup_environment found it.
C39_CreatesVenvIffNothingCompatible ==
    /\ [](epc \in {"find", "venv_check"} => setup_log = <<>>)
    /\ [][(setup_log = <<>> /\ epc' = "create") => NeedsVenv(world)]_vars
    /\ [][(setup_log = <<>> /\ setup_log' # <<>>) =>
             /\ NeedsVenv(world)
             /\ epc = "create"
             /\ setup_log'[1].step = "venv"]_vars
    /\ [][(~SetupOver /\ SetupOver' /\ setup_log' = <<>>) =>
             epc' = "ready" /\ ~NeedsVenv(world)]_vars
    /\ [][(~SetupOver /\ setup_log = <<>> /\ ~NeedsVenv(world)) =>
             world' = world /\ setup_log' = <<>> /\ epc' # "create"]_vars

\* setup_environment has returned on an existing managed runtime, having
\* created and installed nothing
C39_Witness ==
    /\ epc = "ready"
    /\ setup_log = <<>>
    /\ python_log = <<>>
    /\ "python" \notin world.compatible
    /\ "python3" \notin world.compatible
    /\ world.venv_dir /\ VenvPython \in world.compatible

\* setup_environment has created the managed runtime beside an existing
\* folder whose python does not probe compatible
C39_WitnessCreated ==
    /\ Len(setup_log) >= 1
    /\ setup_log[1] = Logged("venv", 1, "ok")
    /\ VenvPython \notin world.compatible
    /\ python_log = <<>>
    /\ SetupOver

(***************************************************************************)
(* Properties of the oracle transport.                                     *)
(***************************************************************************)
\* the kind of failure of a transport outcome, in the words of the oracle
\* client's contract; Success for a response carrying candidate text
FailureClass(t) ==
    CASE t.kind \in {"ConnectionError", "Timeout"} -> "Transient"
      [] t.kind = "response" /\ t.status >= 500 -> "Transient"
      [] t.kind = "response" /\ t.status >= 400 -> "Rejected"
      [] t.kind = "response" /\ t.status = 200
             /\ ~(t.shape \in {"parts", "text"} /\ t.text # <<>>)
           -> "MalformedResponse"
      [] t.kind = "response" /\ t.status = 200 -> "Success"
      [] OTHER -> "Other"

\* the kind of failure call i of the session ended with
CallFailure(i) ==
    FailureClass(call_log[i].attempts[Len(call_log[i].attempts)])

IsNonDecreasing(seq) ==
    \A k \in 1..(Len(seq) - 1) : seq[k] <= seq[k + 1]

\* C18: a call whose every transport attempt ended in a connection error
\* has made exactly 3 attempts, separated by non-decreasing delays.
C18_ConnectionErrorsRetriedThreeTimes ==
    \A i \in DOMAIN call_log :
        (\A k \in DOMAIN call_log[i].attempts :
             call_log[i].attempts[k].kind = "ConnectionError")
        => /\ Len(call_log[i].attempts) = 3
           /\ Len(call_log[i].delays) = 2
           /\ IsNonDecreasing(call_log[i].delays)

\* C19: two failed calls of one client that ended with different kinds of
\* failure among Transient, Rejected and MalformedResponse return different
\* values, and a call that met a 4xx status or a malformed response made no
\* further attempt.
C19_FailureKindsDistinguished ==
    /\ \A i, j \in DOMAIN call_log :
           ( /\ call_log[i].client = call_log[j].client
             /\ {CallFailure(i), CallFailure(j)}
                    \subseteq {"Transient", "Rejected", "MalformedResponse"}
             /\ CallFailure(i) # CallFailure(j) )
           => call_log[i].returned # call_log[j].returned
    /\ \A i \in DOMAIN call_log :
           \A k \in DOMAIN call_log[i].attempts :
               FailureClass(call_log[i].attempts[k])
                   \in {"Rejected", "MalformedResponse"}
               => k = Len(call_log[i].attempts)

C23_ArtifactPathsDistinct ==
    /\ \A j, k \in 1..Len(saved_paths) :
           j # k => saved_paths[j] # saved_paths[k]
    /\ \A k \in 1..Len(iterations_info) :
           iterations_info[k].filepath # None =>
               /\ iterations_info[k].filepath
                      = SaveCodePath(iterations_info[k].iteration)
               /\ \E j \in 1..Len(saved_paths) :
                      saved_paths[j] = iterations_info[k].filepath

\* a run that has written the artifacts of three iterations
C23_Witness ==
    /\ pc = "done"
    /\ Len(saved_paths) = 3

\* the status of the latest execution of each runner
LastRun == runner_log[Len(runner_log)]
LastExec == exec_log[Len(exec_log)]

\* both runners turn every end of the child process into an outcome that is
\* successful exactly for exit code 0 and has a reason for a timeout and
\* for a launch failure
RunnersReportOutcomes ==
    /\ (pc = "analyze" /\ runner_log # <<>>) =>
           /\ success <=> (LastRun = "Ok")
           /\ LastRun \in {"Timeout", "LaunchFailure"} => Truthy(stderr)
    /\ "exec" \in invoked =>
           /\ exec_log # <<>>
           /\ returned["exec"] <=> (LastExec = "Ok")
           /\ LastExec # "Ok" =>
                  /\ Failed(turn_result, "exec")
                  /\ \E k \in DOMAIN turn_result.errors :
                         Head(turn_result.errors[k]) = "step 5 failed"
           /\ wpc # "raised"

HasReason(rec) ==
    \/ "error" \in DOMAIN rec /\ Truthy(rec.error)
    \/ "error_info" \in DOMAIN rec /\ Truthy(rec.error_info)

\* in the result of run, final_success is the success of the last record,
\* which is the only record that can be successful
FinalSuccessIsLastSuccess ==
    pc = "done" =>
        /\ result.iterations # <<>>
        /\ result.final_success
               <=> result.iterations[Len(result.iterations)].success
        /\ result.final_success
               <=> \E k \in DOMAIN result.iterations : result.iterations[k].success
        /\ \A k \in DOMAIN result.iterations :
               result.iterations[k].success => k = Len(result.iterations)

\* C33: final_success is true exactly when the last record is successful,
\* exactly when some record is; at most one record is successful, the last;
\* and after a budget exhausted without success the last record carries its
\* failure reason in error_info or error.
C33_FinalSuccessAndLastReason ==
    /\ FinalSuccessIsLastSuccess
    /\ (pc = "done" /\ ~result.final_success) =>
           HasReason(result.iterations[Len(result.iterations)])

\* the iterations among the first k ended ones whose body raised nothing
Completed(k) == {j \in 1..k : exceptions[j] = None}

\* the record was made at the end of a body that generated, persisted,
\* executed and classified its artifact
MadeByFullIteration(k) ==
    LET rec == iterations_info[k]
    IN  /\ exceptions[k] = None
        /\ "error" \notin DOMAIN rec
        /\ rec.filepath = SaveCodePath(rec.iteration)
        /\ \E j \in DOMAIN saved_paths : saved_paths[j] = rec.filepath
        /\ Cardinality(Completed(k)) <= Len(runner_log)
        /\ "error_info" \in DOMAIN rec

\* C34: every iteration record with success = true has a non-null artifact
\* path and belongs to an iteration in which the artifact was generated,
\* persisted, executed and classified; a record created for an exception
\* never has success = true
C34_SuccessRecordsAreFullIterations ==
    /\ Len(exceptions) = Len(iterations_info)
    /\ \A k \in DOMAIN iterations_info :
           LET rec == iterations_info[k]
           IN  /\ rec.success => rec.filepath # None /\ MadeByFullIteration(k)
               /\ (exceptions[k] # None \/ "error" \in DOMAIN rec) =>
                      ~rec.success /\ rec.filepath = None

\* a run whose first iteration raised and whose second one succeeded
C34_Witness ==
    /\ pc = "done"
    /\ Len(result.iterations) = 2
    /\ "error" \in DOMAIN result.iterations[1]
    /\ result.iterations[2].success
    /\ result.final_success

\* the calls of the oracle made for one purpose
CallsFor(purpose) ==
    Cardinality({k \in DOMAIN client_calls : client_calls[k] = purpose})

\* what is left of the run: the iterations not started, then the steps of
\* the current one
StepsLeft ==
    6 * (max_iterations - iteration)
      + CASE pc = "generate" -> 5
          [] pc = "save" -> 4
          [] pc = "run" -> 3
          [] pc = "analyze" -> 2
          [] pc = "return" -> 1
          [] OTHER -> 0

\* the executions and the oracle calls of a run within its budget
WithinBudget ==
    /\ iteration \in 1..max_iterations
    /\ StepsLeft >= 0
    /\ Len(runner_log) <= max_iterations
    /\ Len(client_calls) <= 2 * max_iterations
    /\ Len(client_calls) = CallsFor("synthesis") + CallsFor("classification")
    /\ CallsFor("synthesis") <= iteration
    /\ CallsFor("classification") <= Len(runner_log)
    /\ Len(runner_log) <= CallsFor("synthesis")

\* C35: one run with budget N performs at most N artifact executions and at
\* most 2N oracle calls (one synthesis and at most one classification per
\* iteration), and always terminates with a result: every step of the run
\* brings it nearer to its end, no step before the end can fail to be taken,
\* and the end has a result
C35_RunIsBoundedAndEnds ==
    /\ []WithinBudget
    /\ [][StepsLeft' < StepsLeft]_vars
    /\ [](pc # "done" => ENABLED Next)
    /\ [](pc = "done" =>
             /\ result.iterations = iterations_info
             /\ result.final_success \in BOOLEAN
             /\ Len(result.iterations) \in 1..max_iterations)

\* a run that used its whole budget of at least two iterations, each one
\* executed and classified
C35_Witness ==
    /\ pc = "done"
    /\ max_iterations >= 2
    /\ Len(runner_log) = max_iterations
    /\ Len(client_calls) = 2 * max_iterations

(***************************************************************************)
(* Properties of the batch of tasks.                                       *)
(***************************************************************************)
\* the batch has run a task for every result, never more than count, and
\* all count of them once its loop is left
BatchRunsEveryTask ==
    /\ Len(batch_results) = Len(failures)
    /\ Len(batch_results) <= count
    /\ bpc \in {"sample", "tcl", "prompt", "analyze", "save"}
           => Len(batch_results) = batch_i
    /\ bpc \in {"batch_save", "done"} => Len(batch_results) = count

\* C21: the batch runs count tasks and returns count results, and every
\* task in which model generation, prompt generation, analysis or result
\* saving failed has a result with analysis_result.success = false.
C21_FailingTaskHasFailedResult ==
    /\ BatchRunsEveryTask
    /\ \A k \in DOMAIN failures :
           failures[k] # {} => ~batch_results[k].success

\* C21 amended: the batch runs count tasks and returns count results; a
\* task in which model generation, prompt generation or analysis failed has
\* a result with success = false, and a task in which only the saving failed
\* has the successful result of its analysis with an empty file name.
C21_BatchIsolatesFailures ==
    /\ BatchRunsEveryTask
    /\ \A k \in DOMAIN failures :
           /\ failures[k] \cap {"tcl", "prompt", "analysis"} # {}
                  => ~batch_results[k].success
           /\ failures[k] = {"save"}
                  => /\ batch_results[k].success
                     /\ \/ batch_results[k].json_file = <<>>
                        \/ batch_results[k].text_file = <<>>
           /\ failures[k] = {} => batch_results[k].success

\* a returned batch of two tasks: model generation raised in the first, only
\* the saving failed in the second
C21_Witness ==
    /\ bpc = "done"
    /\ count = 2
    /\ failures = << {"tcl"}, {"save"} >>

C22_WitnessMissingKey ==
    /\ cli_pc = "exited"
    /\ cli_raised = "ValueError"
    /\ exit_code = 1

\* the command line has exited on an exception of the workflow
C22_WitnessException ==
    /\ cli_pc = "exited"
    /\ wpc = "raised"
    /\ exit_code = 1

\* the execution of the returned result succeeded
ExecutionSucceeded ==
    /\ HasKeys(turn_result.execution_result)
    /\ turn_result.execution_result.success

C36_WitnessFailed ==
    /\ cli_pc = "exited"
    /\ wpc = "returned"
    /\ HasKeys(turn_result.execution_result)
    /\ ~turn_result.execution_result.success
    /\ exit_code = 1

(***************************************************************************)
(* Properties of one agent asked several times.                            *)
(***************************************************************************)
\* the paths of the files that the calls up to now have written, the call
\* in progress included
WrittenPaths ==
    LET all == Append(persisted, turn_result.temp_file_path)
    IN  SelectSeq(all, LAMBDA path : path # <<>>)

\* C24: of two sequential process_single_turn calls on one agent that both
\* write their artifact, the second writes to a path other than the first's,
\* also when both write within the same clock second.
C24_EachTurnWritesFreshPath ==
    \A j, k \in 1..Len(WrittenPaths) :
        j # k => WrittenPaths[j] # WrittenPaths[k]

(***************************************************************************)
(* Properties of the plan of runs.                                         *)
(***************************************************************************)
\* C25: after generate_plan has produced a non-empty plan, the sample()
\* calls return the plan's entries in order, each once, and every sample()
\* call after the last entry raises StopIteration and returns nothing.
C25_SampleWalksThePlanOnce ==
    (planned /\ plan # <<>>) =>
        /\ plan_index \in 0..Len(plan)
        /\ sampled = SubSeq(plan, 1, plan_index)
        /\ stops > 0 => plan_index = Len(plan) /\ sampled = plan
        /\ sampler_raised = "StopIteration" => stops > 0
        /\ sampler_raised # "ValueError"

\* a plan of several entries has been sampled to its end, and two more
\* sample() calls have raised StopIteration
C25_Witness ==
    /\ planned
    /\ Len(plan) >= 3
    /\ sampled = plan
    /\ stops = 2
    /\ sampler_raised = "StopIteration"

\* the runs of the loops' order that have neither a folder nor a report of
\* their name in the output directory
UnrecordedRuns ==
    LET Unrecorded(t) ==
            LET en == TranslateToEnglish(t[1], t[2])
                name == RunName(en[1], en[2], t[3])
            IN  ~ /\ output_dir.exists
                  /\ \/ name \in output_dir.folders
                     \/ name \o <<MD>> \in output_dir.reports
    IN  SelectSeq(AllRuns(structures, intentions, run_count), Unrecorded)

\* C26: the plan of generate_plan is exactly the runs (structure, intention,
\* r), r in 1..run_count, that have no folder and no report named
\* <structure_en>-<intention_en>-<r>, in the order of structure, intention, r.
C26_PlanIsTheUnrecordedRuns ==
    planned => plan = UnrecordedRuns

\* C37: run-folder names round-trip: for every structure and intention of
\* the data and every run index, parsing the name
\* '<structure_en>-<intention_en>-<r>' as _detect_existing_runs does yields
\* the key (structure_en, intention_en) and the index r, also for
\* 'frame-wall' and for translated names containing a hyphen
C37_RunNamesRoundTrip ==
    \A si \in DOMAIN structures, ii \in DOMAIN intentions, r \in 1..MaxRunCount :
        LET en == TranslateToEnglish(structures[si], intentions[ii])
            name == RunName(en[1], en[2], r)
        IN  /\ IsRunName(name)
            /\ ParsedRun(name) = <<en[1], en[2], r>>

(***************************************************************************)
(* Properties of the engine and the sampler on one output directory.       *)
(***************************************************************************)
\* the triple the k-th run of the engine was made for
TripleOf(k) ==
    <<engine_runs[k].structure, engine_runs[k].intention,
      engine_runs[k].run_index>>

\* the plan p schedules the triple t
InPlan(p, t) == \E j \in DOMAIN p : p[j] = t

\* a step in which generate_plan has made the plan
PlanMade ==
    /\ engine_runs' = engine_runs
    /\ planned'
    /\ sampler_raised' # "ValueError"
    /\ plan = <<>> \/ (plan_index' = 0 /\ sampled' = <<>>)

\* a report of the triple t is in the output directory
HasReport(t) ==
    LET en == TranslateToEnglish(t[1], t[2])
    IN  RunName(en[1], en[2], t[3]) \o <<MD>> \in output_dir.reports

\* C38: across sessions, once a run has persisted at least one artifact for
\* (structure, intention, run_index), a later generate_plan never schedules
\* that triple again; a run in which no iteration persisted an artifact
\* leaves no folder, and its triple is scheduled again unless a report of it
\* exists
C38_PersistedRunsAreNotRescheduled ==
    /\ [][PlanMade =>
             \A k \in DOMAIN engine_runs :
                 engine_runs[k].effect = "artifact" =>
                     ~InPlan(plan', TripleOf(k))]_vars
    /\ [][(/\ Len(engine_runs') > Len(engine_runs)
            /\ engine_runs'[Len(engine_runs')].effect # "artifact") =>
             output_dir' = output_dir]_vars
    /\ [][PlanMade =>
             \A k \in DOMAIN engine_runs :
                 (/\ \A j \in DOMAIN engine_runs :
                        TripleOf(j) = TripleOf(k) =>
                            engine_runs[j].effect # "artifact"
                  /\ ~HasReport(TripleOf(k))
                  /\ engine_runs[k].run_index <= run_count')
                 => InPlan(plan', TripleOf(k))]_vars

(***************************************************************************)
(* Properties of the check against the reference executable.               *)
(***************************************************************************)
\* C27: verify_with_local_opensees returns, without raising, available,
\* invoked and passed all false when no reference executable is found; in
\* every result passed implies invoked and invoked implies available.
C27_UnavailableIsNotFailure ==
    /\ verification.passed => verification.invoked
    /\ verification.invoked => verification.available
    /\ (vpc = "returned" /\ verification.cmd = None) =>
           /\ ~verification.available
           /\ ~verification.invoked
           /\ ~verification.passed
    /\ verification.available <=> verification.cmd # None
    /\ vpc \in {"find", "write", "run", "returned"}

\* the call has returned after every candidate was probed in vain
C27_Witness ==
    /\ vpc = "returned"
    /\ Len(probes) = Len(opensees_cmd_candidates)
    /\ verification.cmd = None
    /\ ~verification.available

\* the call has returned a check that passed
C27_WitnessPassed ==
    /\ vpc = "returned"
    /\ verification.passed

(***************************************************************************)
(* Properties of the short prompt.                                         *)
(***************************************************************************)
\* C29: generate_prompt returns a text of at most 10 characters whatever
\* the oracle answers, and the default prompt of the intention when the
\* oracle call fails.
C29_PromptAtMostTenCharacters ==
    ppc = "returned" =>
        /\ Len(p_prompt) <= 10
        /\ p_prompt # None
        /\ p_response = None => p_prompt = GetDefaultPrompt(p_intention)
        /\ \A i \in 1..Len(p_prompt) : p_prompt[i] \notin {DQUOTE, SQUOTE}

\* an answer of twelve characters with quotes in it has been cut to ten
C29_Witness ==
    /\ ppc = "returned"
    /\ p_response # None
    /\ Len(p_response) = 12
    /\ \E i \in 1..Len(p_response) : p_response[i] = DQUOTE
    /\ Len(p_prompt) = 10

\* a failed oracle call has been answered with the default prompt
C29_WitnessDefault ==
    /\ ppc = "returned"
    /\ p_response = None
    /\ p_prompt = <<"ji", "suan", "nei", "li">>

(***************************************************************************)
(* Properties of the functions called on their own.                        *)
(***************************************************************************)
\* C32: the compatibility probe never raises; it returns true exactly when
\* the probe process ended with exit code 0 and printed OK, and false on a
\* timeout, a missing executable or any other exception.
C32_ProbeTrueIffExitZeroAndOk ==
    fn = "probe" =>
        /\ fn_out \in BOOLEAN
        /\ fn_out <=>
               /\ fn_in.run.kind = "exit"
               /\ fn_in.run.rc = 0
               /\ IsInfix(<<"OK">>, fn_in.run.out)
        /\ fn_in.run.kind # "exit" => fn_out = FALSE

\* the probe has returned false for a process that printed OK and ended
\* with another exit code than 0
C32_Witness ==
    /\ fn = "probe"
    /\ fn_in.run.kind = "exit"
    /\ fn_in.run.rc = 2
    /\ fn_in.run.out = <<"OK", NL>>
    /\ fn_out = FALSE

\* the probe has returned false for an executable that is missing
C32_WitnessMissing ==
    /\ fn = "probe"
    /\ fn_in.run.kind = "FileNotFoundError"
    /\ fn_out = FALSE

\* the generated run handed to the latest compare_results call succeeded
\* overall with a successful execution
GeneratedRunSucceeded ==
    /\ fn_in.llm_result.success
    /\ HasKeys(fn_in.llm_result.execution_result)
    /\ fn_in.llm_result.execution_result.success

\* C40: compare_results reports consistent = true only together with
\* comparable = true, and comparable = true only when the generated run
\* succeeded overall with a successful execution and the reference run
\* passed; when either side did not succeed, both are false
C40_ConsistentOnlyIfComparable ==
    fn = "compare" =>
        /\ fn_out.consistent => fn_out.comparable
        /\ fn_out.comparable =>
               GeneratedRunSucceeded /\ fn_in.local_result.passed
        /\ ~(GeneratedRunSucceeded /\ fn_in.local_result.passed) =>
               ~fn_out.comparable /\ ~fn_out.consistent

\* two runs that succeeded and whose numbers agree within a tenth
C40_Witness ==
    /\ fn = "compare"
    /\ fn_out.comparable /\ fn_out.consistent
    /\ fn_in.llm_result.execution_result.stdout = <<"10">>
    /\ fn_in.local_result.output = <<"11">>

\* two runs that succeeded and whose numbers differ
C40_WitnessInconsistent ==
    /\ fn = "compare"
    /\ fn_out.comparable /\ ~fn_out.consistent
    /\ fn_in.llm_result.execution_result.stdout = <<"20">>
    /\ fn_in.local_result.output = <<"10">>

\* a generated run that failed beside a reference run that passed
C40_WitnessFailed ==
    /\ fn = "compare"
    /\ ~GeneratedRunSucceeded
    /\ fn_in.local_result.passed
    /\ ~fn_out.comparable /\ ~fn_out.consistent

(***************************************************************************)
(* Properties of the gated workflow.                                       *)
(***************************************************************************)
\* C6: the step function of stage k+1 is never invoked in a run in which
\* stage k failed, for the stages think, code, extract_code, write, exec.
C6_NoStageAfterFailedStage ==
    \A k \in 1..(Len(Stages) - 1) :
        Failed(turn_result, Stages[k]) => Stages[k + 1] \notin invoked

\* C7: whatever the stages' outcomes, process_single_turn does not end by
\* an exception before its final result step.
C7_WorkflowNeverRaises == wpc # "raised"

ExtractErrors ==
    SelectSeq(turn_result.errors, LAMBDA e : Head(e) = "step 3 failed")

\* C28: the extract stage fails exactly when the body extracted from the
\* synthesis response is empty or blank; when it succeeds extracted_code is
\* that non-empty body; when it fails one error is recorded and
\* extracted_code stays empty.
C28_ExtractFailsIffNoBody ==
    "extract_code" \in invoked =>
        LET body == ExtractPythonCode(turn_result.code_response)
            blank == \A i \in 1..Len(body) : IsSpace(body[i])
        IN  /\ returned["extract_code"] = ~blank
            /\ returned["extract_code"] =>
                   /\ turn_result.extracted_code = body
                   /\ body # <<>>
                   /\ ExtractErrors = <<>>
                   /\ ~Failed(turn_result, "extract_code")
            /\ ~returned["extract_code"] =>
                   /\ turn_result.extracted_code = <<>>
                   /\ Len(ExtractErrors) = 1
                   /\ Failed(turn_result, "extract_code")

\* the extract stage has failed on a synthesis response that holds an empty
\* fenced block
C28_Witness ==
    /\ "extract_code" \in invoked
    /\ ~returned["extract_code"]
    /\ turn_result.code_response = <<FENCEPY, NL, NL, FENCE>>
    /\ wpc = "returned"

\* the extract stage has succeeded on a fenced block
C28_WitnessBody ==
    /\ "extract_code" \in invoked
    /\ returned["extract_code"]
    /\ turn_result.extracted_code = <<"body">>
    /\ Len(turn_result.code_response) > 1

\* stage is named in failed_steps of the result
InFailedSteps(stage) ==
    \E i \in 1..Len(turn_result.failed_steps) :
        turn_result.failed_steps[i] = stage

\* the place of a stage in the order of the stages
StageIndex(stage) == CHOOSE k \in 1..Len(Stages) : Stages[k] = stage

\* C30: in every returned result failed_steps is closed under the later
\* stages from code on, names each stage at most once and in the order of the
\* stages, and is the list of exec alone exactly when think, code,
\* extract_code and write succeeded and exec ran and failed.
C30_FailedStepsDownwardClosed ==
    wpc = "returned" =>
        /\ \A k \in 2..(Len(Stages) - 1) :
               InFailedSteps(Stages[k]) => InFailedSteps(Stages[k + 1])
        /\ \A i, j \in 1..Len(turn_result.failed_steps) :
               i < j => StageIndex(turn_result.failed_steps[i])
                            < StageIndex(turn_result.failed_steps[j])
        /\ \A i \in 1..Len(turn_result.failed_steps) :
               \E k \in 1..Len(Stages) : turn_result.failed_steps[i] = Stages[k]
        /\ turn_result.failed_steps = <<"exec">> <=>
               /\ \A k \in 1..4 :
                      /\ Stages[k] \in invoked
                      /\ returned[Stages[k]]
               /\ "exec" \in invoked
               /\ ~returned["exec"]

\* a returned result whose code stage failed, and with it every later stage
C30_Witness ==
    /\ wpc = "returned"
    /\ turn_result.failed_steps = <<"code", "extract_code", "write", "exec">>
    /\ invoked = {"think", "code"}

\* a returned result in which only the execution failed
C30_WitnessExecOnly ==
    /\ wpc = "returned"
    /\ turn_result.failed_steps = <<"exec">>
    /\ exec_log = <<"NonZero">>

====
